---- MODULE Spec2Model ----
(***************************************************************************)
(* Request-processing pipeline of remus_synerge: the per-identity rate     *)
(* limiter, the JWT token service and the middleware chain around the      *)
(* route handlers.                                                         *)
(*                                                                         *)
(* The specifications below share one list of variables:                   *)
(*   SpecRL  - RateLimiter.Allow and RateLimiter.cleanup, step by step     *)
(*             under the limiter's mutex, called by concurrent tasks;      *)
(*   SpecTok - AuthService.GenerateToken / ValidateToken over a clock      *)
(*             with sub-second resolution, with an adversary that alters   *)
(*             issued tokens;                                              *)
(*   Spec    - the middleware chain of server.New, one task per request    *)
(*             plus the goroutine started by TimeoutMiddleware;            *)
(*   SpecAuth - two concurrent requests on protected routes, from the      *)
(*             point where TimeoutMiddleware has started AuthMiddleware;   *)
(*   SpecLogin - calls of AuthHandler.Login against the users table;       *)
(*   SpecMet - Metrics.RecordRequest and GetMetrics;                       *)
(*   SpecVal - RequestValidationMiddleware and what follows it, for        *)
(*             requests with a body;                                       *)
(*   SpecUsers - the UserHandler calls of two tasks on the users table;    *)
(*   SpecSess - tokens issued, refreshed and presented while users are     *)
(*             deleted;                                                    *)
(*   SpecRLLive - SpecRL with a fair scheduler, clients that stop calling  *)
(*             and a clock that runs two windows beyond the last call;     *)
(*   SpecStore - one request whose handler changes the users table, from   *)
(*             the start of the handler behind the timeout guard;          *)
(*   SpecIP  - the requests of one peer through RateLimitMiddleware, with  *)
(*             the headers getClientIP reads;                              *)
(*   SpecOwn - the protected user routes called with the tokens of         *)
(*             different users.                                            *)
(***************************************************************************)
EXTENDS Integers, Sequences, FiniteSets, TLC

(* ------------------------------------------------------------------ *)
(* Bounds of the model                                                 *)
(* ------------------------------------------------------------------ *)
\* maxRequests passed to NewRateLimiter ranges over 0..MaxLimit
MaxLimit == 2
\* the rate-limit window, in clock ticks
WindowTicks == 2
\* last clock value of the rate-limiter specification
MaxTime == 3
\* number of Allow calls made in one behaviour of SpecRL
MaxCalls == 4

\* client identities (resolved IPs)
IPs == {"ipA", "ipB"}
\* concurrent request tasks calling Allow
Tasks == {"t1", "t2"}

VARIABLES
    now,          \* the clock (time.Now), in ticks
    maxRequests,  \* RateLimiter.maxRequests
    requests,     \* RateLimiter.requests: map ip -> timestamps
    rlMu,         \* RateLimiter.mu: "free" or the task holding it
    tickPending,  \* a tick is waiting in ticker.C of cleanup
    tpc,          \* position of each task inside Allow
    tip,          \* Allow's parameter ip, per task
    tnow,         \* Allow's local now, per task
    tvalid,       \* Allow's local validTimes, per task
    allowLog,     \* the completed Allow calls, in the order of their critical sections
    sweeps,       \* observer of SpecRLLive: per completed sweep, the number of Allow calls completed before it
    secretKey,    \* AuthService.secretKey
    issued,       \* the results of GenerateToken so far: token and expirationTime
    lastVal,      \* the call of ValidateToken in progress: its argument, time and result
    rq,           \* per request: the position of its tasks, its inputs and its response
    crashed,      \* a panic reached the top of a goroutine: the process is gone
    served,       \* number of requests the server has completed
    metrics,      \* the Metrics value of the server
    recorded,     \* the calls of RecordRequest made so far, in the order of their critical sections
    snapshot,     \* the latest result of GetMetrics
    login,        \* the calls of AuthHandler.Login made so far and their responses
    db,           \* the users table and its id sequence
    ucall,        \* per task: the UserHandler call in progress
    ulog          \* the completed UserHandler calls and their responses

rlVars == <<maxRequests, requests, rlMu, tickPending, tpc, tip, tnow, tvalid, allowLog, sweeps>>

tokVars == <<secretKey, issued, lastVal>>

pipeVars == <<rq, crashed, served>>

metVars == <<metrics, recorded, snapshot>>

usrVars == <<db, ucall, ulog>>

vars == <<now, rlVars, tokVars, pipeVars, metVars, login, usrVars>>

\* what the rate limiter leaves alone, and what the token service leaves alone
NotRL == <<tokVars, pipeVars, metVars, login, usrVars>>
NotTok == <<rlVars, pipeVars, metVars, login, usrVars>>

\* the tasks that run UserHandler calls, a task without a call, and the empty
\* users table (database.sql) with its id sequence
UTasks == {"u1", "u2"}
IdleCall == [pc |-> "idle"]
EmptyDB == [rows |-> {}, seq |-> 0]
NoUserCalls ==
    /\ db = EmptyDB
    /\ ucall = [t \in UTasks |-> IdleCall]
    /\ ulog = <<>>


(* ------------------------------------------------------------------ *)
(* AuthService: GenerateToken, ValidateToken                           *)
(* ------------------------------------------------------------------ *)
\* The clock of the token service counts TicksPerSecond ticks per second:
\* time.Time values keep their sub-second part, the exp and iat claims are
\* whole Unix seconds.
TicksPerSecond == 2
\* the lifetime GenerateToken gives a token (24 * time.Hour), in whole seconds
TTLSeconds == 1
\* number of tokens issued in one behaviour of SpecTok
MaxIssued == 1

TokenTTL == TTLSeconds * TicksPerSecond
MaxTimeTok == (TTLSeconds + 1) * TicksPerSecond

\* time.Time.Unix(): the whole seconds of a time
Unix(t) == t \div TicksPerSecond

\* the accounts tokens are issued for
Users == { [id |-> 1, username |-> "alice", email |-> "alice@x"],
           [id |-> 2, username |-> "bob",   email |-> "bob@x"] }
UserIDs == {u.id : u \in Users}
Usernames == {u.username : u \in Users}
Emails == {u.email : u \in Users}

\* the key of a party that does not hold AuthService.secretKey
AttackerKey == "attackerKey"
\* signing methods a token header can declare; the HMAC family is HS256/HS384
Algs == {"HS256", "HS384", "RS256", "none"}
HMACAlgs == {"HS256", "HS384"}

\* The MAC of the claims under a key and signing method, as a term: two MACs
\* are equal exactly when key, method and signed claims are equal. flip marks a
\* MAC of which a byte was changed.
Sign(key, alg, claims) == [k |-> key, a |-> alg, c |-> claims, flip |-> FALSE]

\* GenerateToken with the exp claim set to the time of issue instead of
\* expirationTime.Unix()
GenerateTokenExpNow(key, userID, username, email, t) ==
    LET claims == [ user_id |-> userID, username |-> username, email |-> email,
                    exp |-> Unix(t), iat |-> Unix(t),
                    iss |-> "remus_synerge", sub |-> <<"user_", userID>> ]
    IN  [ token |-> [form |-> "jwt", alg |-> "HS256", claims |-> claims,
                     sig |-> Sign(key, "HS256", claims)],
          expiresAt |-> t + TokenTTL ]

\* GenerateToken: the signed token string and expirationTime
GenerateToken(key, userID, username, email, t) ==
    LET expirationTime == t + TokenTTL
        claims == [ user_id |-> userID, username |-> username, email |-> email,
                    exp |-> Unix(expirationTime), iat |-> Unix(t),
                    iss |-> "remus_synerge", sub |-> <<"user_", userID>> ]
    IN  [ token |-> [form |-> "jwt", alg |-> "HS256", claims |-> claims,
                     sig |-> Sign(key, "HS256", claims)],
          expiresAt |-> expirationTime ]

\* a key function that hands the key to every signing method
KeyFuncAcceptsAny(alg) == TRUE

\* the key function of ValidateToken: only *jwt.SigningMethodHMAC gets the key
KeyFuncAccepts(alg) == alg \in HMACAlgs

\* jwt.StandardClaims.Valid at time t: the failures among expired / issued-at.
\* A zero exp or iat claim counts as absent.
ClaimsErrors(claims, t) ==
    (IF claims.exp # 0 /\ Unix(t) > claims.exp THEN {"expired"} ELSE {})
      \cup (IF claims.iat # 0 /\ Unix(t) < claims.iat THEN {"issued_at"} ELSE {})

\* a verification that only looks at the key the MAC was made with
VerifySignatureKeyOnly(key, tok) == tok.sig.k = key /\ ~tok.sig.flip

\* SigningMethodHMAC.Verify: recompute the MAC of the signed part under the key
VerifySignature(key, tok) == tok.sig = Sign(key, tok.alg, tok.claims)

\* jwt.ParseWithClaims with the key function of ValidateToken: the set of
\* validation errors, empty when the token is valid
ParseErrors(key, tok, t) ==
    IF tok.form # "jwt" THEN {"malformed"}
    ELSE IF ~KeyFuncAccepts(tok.alg) THEN {"unverifiable"}
    ELSE ClaimsErrors(tok.claims, t)
           \cup (IF VerifySignature(key, tok) THEN {} ELSE {"signature_invalid"})

NoClaims == [UserID |-> 0, Username |-> "", Email |-> ""]

\* the *JWTClaims ValidateToken returns
ClaimsOf(tok) ==
    [UserID |-> tok.claims.user_id, Username |-> tok.claims.username, Email |-> tok.claims.email]

\* ValidateToken: claims and a nil error, or nil claims and an error
ValidateToken(key, tok, t) ==
    LET errs == ParseErrors(key, tok, t) IN
    IF errs # {}
    THEN [ok |-> FALSE, err |-> errs, claims |-> NoClaims]
    ELSE [ok |-> TRUE, err |-> {}, claims |-> ClaimsOf(tok)]

\* no call of ValidateToken in progress
NoVal == [pending |-> FALSE]

\* The tokens a party without the secret key can make out of an issued token:
\* any claim, the declared method or the signature changed, or the token signed
\* again with its own key.
Alterations(tok) ==
    LET c == tok.claims
        payloads == {c}
            \cup {[c EXCEPT !.user_id = v, !.sub = <<"user_", v>>] : v \in UserIDs}
            \cup {[c EXCEPT !.username = v] : v \in Usernames}
            \cup {[c EXCEPT !.email = v] : v \in Emails}
            \cup {[c EXCEPT !.exp = v] : v \in {0, c.exp + TTLSeconds + 2}}
        built == UNION { UNION { { [form |-> "jwt", alg |-> a, claims |-> p, sig |-> s] :
                            s \in { tok.sig, [tok.sig EXCEPT !.flip = TRUE],
                                    Sign(AttackerKey, a, p) } } :
                            a \in Algs } : p \in payloads }
    IN  (built \cup {[tok EXCEPT !.form = "garbage"]}) \ {tok}

(* ------------------------------------------------------------------ *)
(* The middleware chain: requests, responses, stage decisions          *)
(* ------------------------------------------------------------------ *)
\* requests in flight, each on its own goroutine
Reqs == {"r1", "r2"}
\* the request slot of the specification of the full chain
Serial == {"r1"}

\* maxRequests of the limiter server.New builds (100 there), scaled down
PipeLimit == 1

\* the key of the AuthService of the running server
ServerKey == "envKey"

\* the route classes of server.New and the methods reaching the chain on them
RouteMethods == { <<"public", "GET">>, <<"public", "POST">>,
                  <<"protected", "GET">>, <<"static", "OPTIONS">> }

\* requests no route matches: an OPTIONS request on the API routes, which are
\* registered with Methods("GET"), Methods("POST"), ..., and a path outside
\* /api/v1 and /static/
Unrouted == { <<"public", "OPTIONS">>, <<"protected", "OPTIONS">>, <<"none", "GET">> }

\* tokens that arrive in Authorization headers
AliceTok == GenerateToken(ServerKey, 1, "alice", "alice@x", 0).token
BobTok == GenerateToken(ServerKey, 2, "bob", "bob@x", 0).token
\* issued long ago: its exp claim lies in the past
OldTok == GenerateToken(ServerKey, 1, "alice", "alice@x", 0 - TokenTTL - 2 * TicksPerSecond).token
\* bob's token with alice's user id and a signature made without the server key
ForgedTok == [BobTok EXCEPT !.claims.user_id = 1,
                !.sig = Sign(AttackerKey, "HS256", [BobTok.claims EXCEPT !.user_id = 1])]
NoneAlgTok == [AliceTok EXCEPT !.alg = "none"]
GarbageTok == [AliceTok EXCEPT !.form = "garbage"]
\* the empty string after "Bearer "
EmptyTok == [AliceTok EXCEPT !.form = "empty"]
WireTokens == {AliceTok, BobTok, OldTok, ForgedTok, NoneAlgTok, GarbageTok, EmptyTok}

\* values of the Authorization header: absent, another scheme, "Bearer " + token
NoAuthHeader == [present |-> FALSE, prefix |-> "", token |-> EmptyTok]
AuthHeaders ==
    {NoAuthHeader}
      \cup {[present |-> TRUE, prefix |-> "Basic ", token |-> AliceTok]}
      \cup {[present |-> TRUE, prefix |-> "Bearer ", token |-> t] : t \in WireTokens}

\* one write of a response: the code given to WriteHeader and the JSON body
Chunk(by, code, error, message) ==
    [by |-> by, code |-> code, error |-> error, message |-> message]

\* no response written
NoChunk == Chunk("none", 0, "", "")

\* the decision of AuthMiddleware that only looks for a non-empty token
AuthOutcomeUnvalidated(key, hdr, t) ==
    IF ~hdr.present THEN "missing_header"
    ELSE IF hdr.prefix # "Bearer " THEN "invalid_format"
    ELSE IF hdr.token.form = "empty" THEN "missing_token"
    ELSE "ok"

\* the decision of AuthMiddleware on an Authorization header at time t
AuthOutcome(key, hdr, t) ==
    IF ~hdr.present THEN "missing_header"
    ELSE IF hdr.prefix # "Bearer " THEN "invalid_format"
    ELSE IF hdr.token.form = "empty" THEN "missing_token"
    ELSE IF ~ValidateToken(key, hdr.token, t).ok THEN "invalid_token"
    ELSE "ok"

\* a rejection that passes the validation error on to the client
AuthMessageWithCause(outcome, errs) ==
    CASE outcome = "missing_header" -> "Missing authorization header"
      [] outcome = "invalid_format" -> "Invalid authorization header format"
      [] outcome = "missing_token" -> "Missing token"
      [] OTHER -> IF "expired" \in errs THEN "token is expired" ELSE "Invalid token"

\* the message AuthMiddleware gives sendUnauthorizedResponse
AuthMessage(outcome, errs) ==
    CASE outcome = "missing_header" -> "Missing authorization header"
      [] outcome = "invalid_format" -> "Invalid authorization header format"
      [] outcome = "missing_token" -> "Missing token"
      [] OTHER -> "Invalid token"

\* sendUnauthorizedResponse
UnauthorizedChunk(message) == Chunk("inner", 401, "Unauthorized", message)

\* a limiter stage that lets every request through
RateLimitPassesAlways(allowed) == TRUE

\* RateLimitMiddleware: "if !limiter.Allow(ip) { ... return }"
RateLimitPasses(allowed) == allowed

RateLimitChunk == Chunk("stage", 429, "Rate limit exceeded", "Too many requests")
TimeoutChunk == Chunk("guard", 408, "Request timeout", "Request took too long to process")
RecoveryChunk == Chunk("recovery", 500, "Internal server error", "An unexpected error occurred")
TooLargeChunk == Chunk("stage", 413, "Request too large", "Request body exceeds maximum size")
MediaTypeChunk == Chunk("stage", 415, "Unsupported media type", "Content-Type must be application/json")
HandlerChunk == Chunk("inner", 200, "", "handler response")
PreflightChunk == Chunk("stage", 200, "", "")
MethodNotAllowedChunk == Chunk("router", 405, "", "Method Not Allowed")
NotFoundChunk == Chunk("router", 404, "", "404 page not found")

\* the write goes through the responseWriter wrappers of LoggingMiddleware and
\* MetricsMiddleware: it comes from a stage inside them (RecoveryMiddleware
\* and CORSMiddleware hold the server's own writer)
Wrapped(rec, chunk) ==
    /\ chunk.by # "recovery"
    /\ \E i \in 1..Len(rec.trace) : rec.trace[i] = "metrics"

\* http.ResponseWriter: the first WriteHeader sets the status, every body is
\* appended; once the server has finished the response nothing reaches it.
\* responseWriter.WriteHeader keeps the code of the latest call.
WriteResponse(rec, chunk) ==
    IF rec.pc = "done" THEN rec
    ELSE [rec EXCEPT !.status = IF @ = 0 THEN chunk.code ELSE @,
                     !.body = Append(@, chunk),
                     !.rwStatus = IF Wrapped(rec, chunk) THEN chunk.code ELSE @,
                     !.bare = @ \/ ~rec.secHeaders]

\* a line of LoggingMiddleware: its level, its message and the status field
LogLine(level, msg, status) == [level |-> level, msg |-> msg, status |-> status]

\* "Request started"
StartLine == LogLine("info", "Request started", 0)

\* the switch on rw.statusCode that picks the message of the completion line
CompletionMessage(statusCode) ==
    IF statusCode >= 500 THEN "Request completed with server error"
    ELSE IF statusCode >= 400 THEN "Request completed with client error"
    ELSE IF statusCode >= 300 THEN "Request completed with redirect"
    ELSE "Request completed successfully"

CompletionMessages == {CompletionMessage(c) : c \in {200, 300, 400, 500}}

\* the level of the completion line: the event is made by logger.Info() before
\* the switch, which only picks the message
CompletionLevel(statusCode) == "info"

\* the completion line for the status code the wrapper holds
CompletionLine(statusCode) ==
    LogLine(CompletionLevel(statusCode), CompletionMessage(statusCode), statusCode)

\* a request before it arrives
NewRequest ==
    [ pc |-> "idle", ipc |-> "none",
      route |-> "?", method |-> "?", ip |-> "?",
      allowed |-> "?", prior |-> 0,
      hdr |-> NoAuthHeader, authAt |-> 0, outcome |-> "?", authErr |-> {},
      authResp |-> NoChunk,
      ctx |-> NoClaims,
      status |-> 0, body |-> <<>>,
      fired |-> FALSE, canceled |-> FALSE, doneLive |-> FALSE, panicked |-> "none",
      trace |-> <<>>,
      secHeaders |-> FALSE, bare |-> FALSE,
      rwStatus |-> 0, mstart |-> 0, log |-> <<>>,
      contentLength |-> 0, bodyLen |-> 0, ctype |-> "" ]

\* the largest body RequestValidationMiddleware accepts (1 MiB in the code),
\* in units of that size
MaxBody == 1

\* What a request brings to validation: r.ContentLength, the length of the
\* body that will come, and the Content-Type header. ContentLength is the
\* declared length, or -1 for a body sent with chunked transfer encoding.
BodyInput(contentLength, bodyLen, ctype) ==
    [contentLength |-> contentLength, bodyLen |-> bodyLen, ctype |-> ctype]

ContentTypes == {"", "application/json", "text/plain"}

BodyInputs ==
    { BodyInput(cl, bl, ct) :
        cl \in {-1, 0, MaxBody + 1}, bl \in {0, MaxBody + 1}, ct \in ContentTypes }

\* a request body is declared with its length or is chunked
WellDeclared(in) == in.contentLength \in {-1, in.bodyLen}

\* the bodies of the requests sent through the full chain
ChainInputs == { BodyInput(0, 0, "application/json"),
                 BodyInput(MaxBody + 1, MaxBody + 1, "application/json"),
                 BodyInput(0, 0, "text/plain") }

\* a size check on the length of the body
TooLargeByBody(in) == in.bodyLen > MaxBody

\* "if r.ContentLength > 1024*1024"
TooLarge(in) == in.contentLength > MaxBody

\* "if r.Method == POST || r.Method == PUT" with a Content-Type that is set
\* and does not start with application/json
WrongMediaType(method, in) ==
    method \in {"POST", "PUT"} /\ in.ctype \notin {"", "application/json"}

\* a chain with the auth guard in front of every handler
InnerEntryAuthEverywhere(route) == "auth"

\* what the goroutine of the timeout guard runs first: AuthMiddleware is in use
\* on protectedRouter only
InnerEntry(route) == IF route = "protected" THEN "auth" ELSE "handler"

\* a chain in which the security-headers stage can panic before it has set
\* the header fields
InsideRecoveryFromHeaders == {"headers", "cors", "logging", "metrics", "ratelimit", "validation",
                              "timeout", "select", "metricsPost", "loggingPost"}

\* positions of the request task from which a panic unwinds into the deferred
\* function of RecoveryMiddleware. SecurityHeadersMiddleware does nothing but
\* set header fields before it calls next: no panic starts there.
InsideRecovery == {"cors", "logging", "metrics", "ratelimit", "validation",
                   "timeout", "select", "metricsPost", "loggingPost"}

(* ------------------------------------------------------------------ *)
(* Metrics                                                             *)
(* ------------------------------------------------------------------ *)
\* the number of durations RecordRequest keeps per endpoint (100 in the code)
MaxDurations == 2

\* a Go map read: the zero value for a key that is not in the map
Get(f, k, zero) == IF k \in DOMAIN f THEN f[k] ELSE zero

\* a Go map write
Put(f, k, v) == [x \in DOMAIN f \cup {k} |-> IF x = k THEN v ELSE f[x]]

RECURSIVE SumSeq(_)
SumSeq(q) == IF q = <<>> THEN 0 ELSE q[1] + SumSeq(Tail(q))

RECURSIVE SumOver(_, _)
SumOver(f, keys) ==
    IF keys = {} THEN 0
    ELSE LET k == CHOOSE x \in keys : TRUE IN f[k] + SumOver(f, keys \ {k})

\* NewMetrics
NewMetrics ==
    [ RequestCount |-> <<>>, RequestDuration |-> <<>>, StatusCodeCount |-> <<>>,
      ActiveConnections |-> 0, TotalConnections |-> 0, ErrorCount |-> 0,
      AverageResponseTime |-> 0 ]

\* method + " " + path
EndpointKey(method, path) == <<method, " ", path>>

\* a buffer that stops taking durations once it is full
LastDurationsKeepOldest(q) ==
    IF Len(q) > MaxDurations THEN SubSeq(q, 1, MaxDurations) ELSE q

\* "m.RequestDuration[key] = m.RequestDuration[key][len-100:]" when longer than 100
LastDurations(q) ==
    IF Len(q) > MaxDurations THEN SubSeq(q, Len(q) - MaxDurations + 1, Len(q)) ELSE q

\* Metrics.RecordRequest, under m.mu
\* a RecordRequest that counts only server errors (5xx) as errors
RecordRequestServerErrors(m, key, statusCode, duration) ==
    LET durs == Put(m.RequestDuration, key,
                    LastDurations(Append(Get(m.RequestDuration, key, <<>>), duration)))
    IN  [ m EXCEPT
            !.RequestCount = Put(@, key, Get(@, key, 0) + 1),
            !.RequestDuration = durs,
            !.StatusCodeCount = Put(@, statusCode, Get(@, statusCode, 0) + 1),
            !.ErrorCount = IF statusCode >= 500 THEN @ + 1 ELSE @,
            !.TotalConnections = @ + 1 ]

RecordRequest(m, key, statusCode, duration) ==
    LET durs == Put(m.RequestDuration, key,
                    LastDurations(Append(Get(m.RequestDuration, key, <<>>), duration)))
        totalDuration == SumOver([k \in DOMAIN durs |-> SumSeq(durs[k])], DOMAIN durs)
        totalRequests == SumOver([k \in DOMAIN durs |-> Len(durs[k])], DOMAIN durs)
    IN  [ m EXCEPT
            !.RequestCount = Put(@, key, Get(@, key, 0) + 1),
            !.RequestDuration = durs,
            !.StatusCodeCount = Put(@, statusCode, Get(@, statusCode, 0) + 1),
            !.ErrorCount = IF statusCode >= 400 THEN @ + 1 ELSE @,
            !.TotalConnections = @ + 1,
            !.AverageResponseTime = IF totalRequests > 0
                                    THEN totalDuration \div totalRequests ELSE @ ]

\* a Go map value is a reference: the map GetMetrics puts under "status_codes"
\* is m.StatusCodeCount itself, not a copy of it
StatusCodeCountRef == [ref |-> "Metrics.StatusCodeCount"]

\* Metrics.GetMetrics, under m.mu.RLock: the snapshot
GetMetrics(m) ==
    LET shown == {k \in DOMAIN m.RequestDuration : Len(m.RequestDuration[k]) > 0} IN
    [ total_requests |-> m.TotalConnections,
      active_connections |-> m.ActiveConnections,
      error_count |-> m.ErrorCount,
      average_response_time |-> m.AverageResponseTime,
      status_codes |-> StatusCodeCountRef,
      endpoints |-> [k \in shown |->
          [ count |-> Get(m.RequestCount, k, 0),
            average_duration |-> SumSeq(m.RequestDuration[k]) \div Len(m.RequestDuration[k]),
            last_duration |-> m.RequestDuration[k][Len(m.RequestDuration[k])] ]] ]

\* what the holder of a GetMetrics result reads from it (as json.Encode in
\* MetricsHandler does, after the read lock is released): the copied values,
\* and through the shared map the status counts of the Metrics value as they
\* are at the time of reading
ReadSnapshot(data, m) == [data EXCEPT !.status_codes = m.StatusCodeCount]

\* one call of RecordRequest
Call(key, statusCode, duration) == [key |-> key, statusCode |-> statusCode, duration |-> duration]

\* GetMetrics has not been called
NoSnapshot == [taken |-> FALSE]

(* ------------------------------------------------------------------ *)
(* AuthHandler.Login                                                   *)
(* ------------------------------------------------------------------ *)
\* number of Login calls in one behaviour of SpecLogin
MaxLogins == 2
\* last clock value of SpecLogin
MaxTimeLogin == 1

\* no call of Login made yet
NoLogins == <<>>

\* bcrypt: the hash of a password, and CompareHashAndPassword
HashPassword(password) == <<"bcrypt", password>>
ComparePassword(hashedPassword, password) == hashedPassword = HashPassword(password)

\* the rows of the users table
Accounts == { [ID |-> 1, Username |-> "alice", Email |-> "alice@x", Password |-> HashPassword("pwA")],
              [ID |-> 2, Username |-> "bob",   Email |-> "bob@x",   Password |-> HashPassword("pwB")] }
NoUser == [ID |-> 0, Username |-> "", Email |-> "", Password |-> <<>>]

\* userRepo.GetUserByEmail: the row with the email, or an error when there is
\* none or the query fails
GetUserByEmail(email, dbUp) ==
    IF dbUp /\ \E u \in Accounts : u.Email = email
    THEN [ok |-> TRUE, user |-> CHOOSE u \in Accounts : u.Email = email]
    ELSE [ok |-> FALSE, user |-> NoUser]

\* the decoded bodies of login requests; a body that does not decode leaves
\* the LoginRequest empty
LoginRequests ==
    {[decodes |-> FALSE, Email |-> "", Password |-> ""]}
      \cup {[decodes |-> TRUE, Email |-> e, Password |-> pw] :
                e \in {"alice@x", "bob@x", "carol@x", ""}, pw \in {"pwA", "pwB", ""}}

NoToken == [form |-> "none"]

\* sendErrorResponse: http.StatusText(statusCode) and the message
StatusText(statusCode) ==
    CASE statusCode = 400 -> "Bad Request"
      [] statusCode = 401 -> "Unauthorized"
      [] statusCode = 404 -> "Not Found"
      [] statusCode = 409 -> "Conflict"
      [] statusCode = 500 -> "Internal Server Error"
      [] OTHER -> "?"

ErrorResponse(statusCode, message) ==
    [ status |-> statusCode, error |-> StatusText(statusCode), message |-> message,
      token |-> NoToken, expiresAt |-> 0, user |-> [id |-> 0, username |-> "", email |-> ""] ]

\* a Login that tells the client that the email is not in the store
LoginLookupMessageRevealing == "User not found"

\* the message of Login when GetUserByEmail fails
LoginLookupMessage == "Invalid credentials"

\* AuthHandler.Login at time t: the response
Login(key, req, dbUp, t) ==
    IF ~req.decodes THEN ErrorResponse(400, "Invalid request body")
    ELSE IF req.Email = "" \/ req.Password = ""
    THEN ErrorResponse(400, "Email and password are required")
    ELSE LET found == GetUserByEmail(req.Email, dbUp) IN
         IF ~found.ok THEN ErrorResponse(401, LoginLookupMessage)
         ELSE IF ~ComparePassword(found.user.Password, req.Password)
         THEN ErrorResponse(401, "Invalid credentials")
         ELSE LET gen == GenerateToken(key, found.user.ID, found.user.Username,
                                       found.user.Email, t) IN
              [ status |-> 200, error |-> "", message |-> "",
                token |-> gen.token, expiresAt |-> gen.expiresAt,
                user |-> [id |-> found.user.ID, username |-> found.user.Username,
                          email |-> found.user.Email] ]

(* ------------------------------------------------------------------ *)
(* RateLimiter                                                         *)
(* ------------------------------------------------------------------ *)

\* the loop "if now.Sub(t) < rl.window { validTimes = append(validTimes, t) }"
\* a limiter that counts per fixed window: it keeps the timestamps since the
\* last multiple of the window
PruneFixedWindow(times, t) == SelectSeq(times, LAMBDA x : x >= t - (t % WindowTicks))

Prune(times, t) == SelectSeq(times, LAMBDA x : t - x < WindowTicks)

\* the check "len(validTimes) >= rl.maxRequests" of Allow
OverLimit(valid, limit) == Len(valid) >= limit

\* the map after Allow(ip) at time t, and Allow's result
AllowResult(reqs, limit, ip, t) ==
    IF ip \notin DOMAIN reqs THEN TRUE
    ELSE ~OverLimit(Prune(reqs[ip], t), limit)

\* an Allow that stores a timestamp only for an identity new to the map
AllowMapFreshOnly(reqs, limit, ip, t) ==
    IF ip \notin DOMAIN reqs
    THEN [k \in DOMAIN reqs \cup {ip} |-> IF k = ip THEN <<t>> ELSE reqs[k]]
    ELSE reqs

AllowMap(reqs, limit, ip, t) ==
    IF ip \notin DOMAIN reqs
    THEN [k \in DOMAIN reqs \cup {ip} |-> IF k = ip THEN <<t>> ELSE reqs[k]]
    ELSE IF OverLimit(Prune(reqs[ip], t), limit) THEN reqs
    ELSE [reqs EXCEPT ![ip] = Append(Prune(reqs[ip], t), t)]

\* a sweep that prunes the entries and deletes none
SweepMapKeepEmpty(reqs, t) == [k \in DOMAIN reqs |-> Prune(reqs[k], t)]

\* the map after one sweep of cleanup at time t
SweepMap(reqs, t) ==
    LET keep == {k \in DOMAIN reqs : Len(Prune(reqs[k], t)) > 0}
    IN  [k \in keep |-> Prune(reqs[k], t)]

\* sync.Mutex: Lock succeeds only while nobody holds the mutex
CanLock(mu) == mu = "free"

\* rl.mu.Lock(); now := time.Now(); times, exists := rl.requests[ip]
AllowLock(t, ip) ==
    /\ tpc[t] = "idle"
    /\ Len(allowLog) + Cardinality({u \in Tasks : tpc[u] # "idle"}) < MaxCalls
    /\ CanLock(rlMu)
    /\ rlMu' = t
    /\ tpc' = [tpc EXCEPT ![t] = "locked"]
    /\ tip' = [tip EXCEPT ![t] = ip]
    /\ tnow' = [tnow EXCEPT ![t] = now]
    /\ UNCHANGED <<now, maxRequests, requests, tickPending, tvalid, allowLog, sweeps>>
    /\ UNCHANGED NotRL

\* "if !exists { rl.requests[ip] = []time.Time{now}; return true }", the deferred Unlock
AllowFresh(t) ==
    /\ tpc[t] = "locked"
    /\ tip[t] \notin DOMAIN requests
    /\ requests' = AllowMap(requests, maxRequests, tip[t], tnow[t])
    /\ allowLog' = Append(allowLog, [ip |-> tip[t], t |-> tnow[t], ok |-> TRUE])
    /\ rlMu' = IF rlMu = t THEN "free" ELSE rlMu
    /\ tpc' = [tpc EXCEPT ![t] = "idle"]
    /\ UNCHANGED <<now, maxRequests, tickPending, tip, tnow, tvalid, sweeps>>
    /\ UNCHANGED NotRL

\* the pruning loop of Allow over the stored timestamps
AllowPrune(t) ==
    /\ tpc[t] = "locked"
    /\ tip[t] \in DOMAIN requests
    /\ tvalid' = [tvalid EXCEPT ![t] = Prune(requests[tip[t]], tnow[t])]
    /\ tpc' = [tpc EXCEPT ![t] = "pruned"]
    /\ UNCHANGED <<now, maxRequests, requests, rlMu, tickPending, tip, tnow, allowLog, sweeps>>
    /\ UNCHANGED NotRL

\* an Allow that stores the timestamp of a call also when it refuses it
AllowCheckStoreRejected(t) ==
    /\ tpc[t] = "pruned"
    /\ LET ok == ~OverLimit(tvalid[t], maxRequests) IN
        /\ requests' = [k \in DOMAIN requests \cup {tip[t]} |->
                          IF k = tip[t] THEN Append(tvalid[t], tnow[t]) ELSE requests[k]]
        /\ allowLog' = Append(allowLog, [ip |-> tip[t], t |-> tnow[t], ok |-> ok])
    /\ rlMu' = IF rlMu = t THEN "free" ELSE rlMu
    /\ tpc' = [tpc EXCEPT ![t] = "idle"]
    /\ tvalid' = [tvalid EXCEPT ![t] = <<>>]
    /\ UNCHANGED <<now, maxRequests, tickPending, tip, tnow, sweeps>>
    /\ UNCHANGED NotRL

\* the check, the append and the deferred Unlock
AllowCheck(t) ==
    /\ tpc[t] = "pruned"
    /\ LET ok == ~OverLimit(tvalid[t], maxRequests) IN
        /\ requests' = IF ok
                       THEN [k \in DOMAIN requests \cup {tip[t]} |->
                               IF k = tip[t] THEN Append(tvalid[t], tnow[t]) ELSE requests[k]]
                       ELSE requests
        /\ allowLog' = Append(allowLog, [ip |-> tip[t], t |-> tnow[t], ok |-> ok])
    /\ rlMu' = IF rlMu = t THEN "free" ELSE rlMu
    /\ tpc' = [tpc EXCEPT ![t] = "idle"]
    /\ tvalid' = [tvalid EXCEPT ![t] = <<>>]
    /\ UNCHANGED <<now, maxRequests, tickPending, tip, tnow, sweeps>>
    /\ UNCHANGED NotRL

\* "for range ticker.C { rl.mu.Lock()": cleanup takes the tick and the mutex
CleanupLock ==
    /\ tickPending
    /\ CanLock(rlMu)
    /\ rlMu' = "cleanup"
    /\ tickPending' = FALSE
    /\ UNCHANGED <<now, maxRequests, requests, tpc, tip, tnow, tvalid, allowLog, sweeps>>
    /\ UNCHANGED NotRL

\* a sweep that drops every identity
CleanupSweepAll ==
    /\ rlMu = "cleanup"
    /\ requests' = <<>>
    /\ rlMu' = "free"
    /\ UNCHANGED <<now, maxRequests, tickPending, tpc, tip, tnow, tvalid, allowLog>>
    /\ UNCHANGED NotRL

\* the sweep over rl.requests and rl.mu.Unlock()
CleanupSweep ==
    /\ rlMu = "cleanup"
    /\ requests' = SweepMap(requests, now)
    /\ rlMu' = "free"
    /\ UNCHANGED <<now, maxRequests, tickPending, tpc, tip, tnow, tvalid, allowLog>>
    /\ UNCHANGED NotRL

\* time passes; the ticker of cleanup fires every window
TickRL ==
    /\ now < MaxTime
    /\ now' = now + 1
    /\ tickPending' = (tickPending \/ (now + 1) % WindowTicks = 0)
    /\ UNCHANGED <<maxRequests, requests, rlMu, tpc, tip, tnow, tvalid, allowLog, sweeps>>
    /\ UNCHANGED NotRL

InitRL ==
    /\ now = 0
    /\ maxRequests \in 0..MaxLimit
    /\ requests = <<>>
    /\ rlMu = "free"
    /\ tickPending = FALSE
    /\ tpc = [t \in Tasks |-> "idle"]
    /\ tip = [t \in Tasks |-> "ipA"]
    /\ tnow = [t \in Tasks |-> 0]
    /\ tvalid = [t \in Tasks |-> <<>>]
    /\ allowLog = <<>>
    /\ sweeps = <<>>
    /\ secretKey = "envKey"
    /\ issued = {}
    /\ lastVal = NoVal
    /\ rq = [r \in Reqs |-> NewRequest]
    /\ crashed = FALSE
    /\ served = 0
    /\ metrics = NewMetrics
    /\ recorded = <<>>
    /\ snapshot = NoSnapshot
    /\ login = NoLogins
    /\ NoUserCalls

NextRL ==
    \/ \E t \in Tasks, ip \in IPs : AllowLock(t, ip)
    \/ \E t \in Tasks : AllowFresh(t)
    \/ \E t \in Tasks : AllowPrune(t)
    \/ \E t \in Tasks : AllowCheck(t)
    \/ CleanupLock
    \/ CleanupSweep /\ UNCHANGED sweeps
    \/ TickRL

SpecRL == InitRL /\ [][NextRL]_vars

\* the calls of one identity, in the order of their critical sections
CallsOf(ip) == SelectSeq(allowLog, LAMBDA e : e.ip = ip)

\* C1: for every identity and every configured maxRequests, the first
\* maxRequests+1 calls of Allow made for the identity within one window return
\* true exactly maxRequests times, and the call serialised last returns false.
C1_ExactlyMaxAdmitted ==
    \A ip \in IPs :
        LET calls == CallsOf(ip) IN
        (Len(calls) >= maxRequests + 1
            /\ calls[maxRequests + 1].t - calls[1].t < WindowTicks)
        => /\ \A i \in 1..maxRequests : calls[i].ok
           /\ ~calls[maxRequests + 1].ok

\* The same statement for a limit of at least one request, which the code meets.
AllowCountsForPositiveLimit == maxRequests >= 1 => C1_ExactlyMaxAdmitted

\* The critical sections of Allow and cleanup exclude each other.
AllowMutualExclusion ==
    /\ Cardinality({t \in Tasks : tpc[t] # "idle"}) <= 1
    /\ \A t \in Tasks : tpc[t] # "idle" => rlMu = t

(* ------------------------------------------------------------------ *)
(* The token service as a state machine                                *)
(* ------------------------------------------------------------------ *)
IssuedTokens == {i.token : i \in issued}

\* Login / RefreshToken call GenerateToken for a user
IssueToken(u) ==
    /\ ~lastVal.pending
    /\ Cardinality(issued) < MaxIssued
    /\ issued' = issued \cup {GenerateToken(secretKey, u.id, u.username, u.email, now)}
    /\ UNCHANGED <<now, secretKey, lastVal>>
    /\ UNCHANGED NotTok

\* ValidateToken is called with a token as GenerateToken returned it
ValidateIssued(i) ==
    /\ ~lastVal.pending
    /\ lastVal' = [pending |-> TRUE, tok |-> i.token, at |-> now,
                   res |-> ValidateToken(secretKey, i.token, now)]
    /\ UNCHANGED <<now, secretKey, issued>>
    /\ UNCHANGED NotTok

\* ValidateToken is called with a token somebody altered or signed with another key
ValidateAltered(tok) ==
    /\ ~lastVal.pending
    /\ tok \notin IssuedTokens
    /\ lastVal' = [pending |-> TRUE, tok |-> tok, at |-> now,
                   res |-> ValidateToken(secretKey, tok, now)]
    /\ UNCHANGED <<now, secretKey, issued>>
    /\ UNCHANGED NotTok

\* the caller takes the result
ValidateReturn ==
    /\ lastVal.pending
    /\ lastVal' = NoVal
    /\ UNCHANGED <<now, secretKey, issued>>
    /\ UNCHANGED NotTok

TickTok ==
    /\ ~lastVal.pending
    /\ now < MaxTimeTok
    /\ now' = now + 1
    /\ UNCHANGED <<secretKey, issued, lastVal>>
    /\ UNCHANGED NotTok

InitTok ==
    /\ now = 0
    /\ secretKey \in {"envKey", "randomKey"}
    /\ issued = {}
    /\ lastVal = NoVal
    /\ maxRequests = 0
    /\ requests = <<>>
    /\ rlMu = "free"
    /\ tickPending = FALSE
    /\ tpc = [t \in Tasks |-> "idle"]
    /\ tip = [t \in Tasks |-> "ipA"]
    /\ tnow = [t \in Tasks |-> 0]
    /\ tvalid = [t \in Tasks |-> <<>>]
    /\ allowLog = <<>>
    /\ sweeps = <<>>
    /\ rq = [r \in Reqs |-> NewRequest]
    /\ crashed = FALSE
    /\ served = 0
    /\ metrics = NewMetrics
    /\ recorded = <<>>
    /\ snapshot = NoSnapshot
    /\ login = NoLogins
    /\ NoUserCalls

NextTok ==
    \/ \E u \in Users : IssueToken(u)
    \/ \E i \in issued : ValidateIssued(i)
    \/ \E i \in issued : \E tok \in Alterations(i.token) : ValidateAltered(tok)
    \/ ValidateReturn
    \/ TickTok

SpecTok == InitTok /\ [][NextTok]_vars

C10_AlteredTokenRejected ==
    (lastVal.pending /\ lastVal.tok \notin IssuedTokens) =>
        /\ ~lastVal.res.ok
        /\ lastVal.res.claims = NoClaims

\* a token with a changed user id and the issued token's signature was rejected
C10_Witness ==
    /\ lastVal.pending
    /\ \E i \in issued : /\ lastVal.tok.sig = i.token.sig
                         /\ lastVal.tok.alg = i.token.alg
                         /\ lastVal.tok.form = "jwt"
                         /\ lastVal.tok.claims.user_id # i.token.claims.user_id
                         /\ lastVal.at < i.expiresAt
    /\ ~lastVal.res.ok

\* the keys an AuthService can hold, and a key of somebody else
KeysTried == {"envKey", "randomKey", AttackerKey}

\* C11: ValidateToken rejects every token whose declared signing method is not
\* of the HMAC family, whatever its payload and signature are, and does so
\* without using the secret key: the error is that of the key function alone
\* (no signature or claims check was made) and the result is the same under
\* every key.
C11_NonHMACRejected ==
    (lastVal.pending /\ lastVal.tok.alg \notin HMACAlgs) =>
        /\ ~lastVal.res.ok
        /\ lastVal.res.claims = NoClaims
        /\ lastVal.tok.form = "jwt" => lastVal.res.err = {"unverifiable"}
        /\ \A k \in KeysTried :
              ValidateToken(k, lastVal.tok, lastVal.at) = lastVal.res

\* an issued, unexpired token of which only the declared method was changed to
\* "none" was presented and rejected
C11_Witness ==
    /\ lastVal.pending
    /\ lastVal.tok.alg = "none"
    /\ \E i \in issued : /\ lastVal.tok = [i.token EXCEPT !.alg = "none"]
                         /\ lastVal.at < i.expiresAt
    /\ ~lastVal.res.ok

(* ------------------------------------------------------------------ *)
(* Login as a state machine                                            *)
(* ------------------------------------------------------------------ *)
\* a client posts a login request; the handler answers and, on success, has
\* issued a token
LoginCall(req, dbUp) ==
    /\ Len(login) < MaxLogins
    /\ LET resp == Login(secretKey, req, dbUp, now) IN
        /\ login' = Append(login, [req |-> req, dbUp |-> dbUp, at |-> now, resp |-> resp])
        /\ issued' = IF resp.status = 200
                      THEN issued \cup {[token |-> resp.token, expiresAt |-> resp.expiresAt]}
                      ELSE issued
    /\ UNCHANGED <<now, secretKey, lastVal, rlVars, pipeVars, metVars, usrVars>>

TickLogin ==
    /\ now < MaxTimeLogin
    /\ now' = now + 1
    /\ UNCHANGED <<tokVars, rlVars, pipeVars, metVars, login, usrVars>>

NextLogin ==
    \/ \E req \in LoginRequests : \E dbUp \in BOOLEAN : LoginCall(req, dbUp)
    \/ TickLogin

SpecLogin == InitTok /\ [][NextLogin]_vars

\* a well-formed login request: the body decodes, email and password are set
WellFormed(req) == req.decodes /\ req.Email # "" /\ req.Password # ""

UnknownEmail(req) == \A u \in Accounts : u.Email # req.Email

WrongPassword(req) ==
    \E u \in Accounts : u.Email = req.Email /\ ~ComparePassword(u.Password, req.Password)

\* C12: for well-formed login requests, the response for an email that is not
\* in the store and the response for a stored email with a wrong password are
\* the same: status 401, error "Unauthorized", message "Invalid credentials",
\* no token; and the only tokens issued are those of successful logins.
C12_LoginNonInterference ==
    /\ \A i, j \in 1..Len(login) :
          (WellFormed(login[i].req) /\ UnknownEmail(login[i].req)
              /\ WellFormed(login[j].req) /\ WrongPassword(login[j].req))
          => /\ login[i].resp = login[j].resp
             /\ login[i].resp = ErrorResponse(401, "Invalid credentials")
             /\ login[i].resp.error = "Unauthorized"
             /\ login[i].resp.token = NoToken
    /\ issued = { [token |-> login[i].resp.token, expiresAt |-> login[i].resp.expiresAt] :
                    i \in {k \in 1..Len(login) : login[k].resp.status = 200} }
    /\ \A i \in 1..Len(login) :
          login[i].resp.status = 200 =>
              /\ ~UnknownEmail(login[i].req)
              /\ ~WrongPassword(login[i].req)

\* a login with an unknown email and one with a stored email and a wrong
\* password were both answered, with the store reachable, and no token exists
C12_Witness ==
    /\ \E i, j \in 1..Len(login) :
          /\ login[i].req = [decodes |-> TRUE, Email |-> "carol@x", Password |-> "pwA"]
          /\ login[j].req = [decodes |-> TRUE, Email |-> "alice@x", Password |-> "pwB"]
          /\ login[i].dbUp /\ login[j].dbUp
          /\ login[i].resp.status = 401
    /\ issued = {}

(* ------------------------------------------------------------------ *)
(* Metrics as a state machine                                          *)
(* ------------------------------------------------------------------ *)
\* number of RecordRequest calls in one behaviour of SpecMet
MaxRecords == 4

\* the endpoints, status codes and durations recorded in SpecMet
MetEndpoints == {<<"GET", "/api/v1/health">>, <<"POST", "/api/v1/auth/login">>}
MetStatusCodes == {200, 401}
MetDurations == {1, 2}

\* a request task calls RecordRequest; the whole body runs under m.mu
Record(method, path, statusCode, duration) ==
    /\ Len(recorded) < MaxRecords
    /\ metrics' = RecordRequest(metrics, EndpointKey(method, path), statusCode, duration)
    /\ recorded' = Append(recorded, Call(EndpointKey(method, path), statusCode, duration))
    /\ UNCHANGED <<now, rlVars, tokVars, pipeVars, snapshot, login, usrVars>>

\* a task calls GetMetrics, under m.mu.RLock
Snapshot ==
    /\ snapshot' = [taken |-> TRUE, after |-> Len(recorded),
                    data |-> GetMetrics(metrics),
                    returned |-> ReadSnapshot(GetMetrics(metrics), metrics)]
    /\ UNCHANGED <<now, rlVars, tokVars, pipeVars, metrics, recorded, login, usrVars>>

InitMet ==
    /\ now = 0
    /\ maxRequests = PipeLimit
    /\ requests = <<>>
    /\ rlMu = "free"
    /\ tickPending = FALSE
    /\ tpc = [t \in Tasks |-> "idle"]
    /\ tip = [t \in Tasks |-> "ipA"]
    /\ tnow = [t \in Tasks |-> 0]
    /\ tvalid = [t \in Tasks |-> <<>>]
    /\ allowLog = <<>>
    /\ sweeps = <<>>
    /\ secretKey = ServerKey
    /\ issued = {}
    /\ lastVal = NoVal
    /\ rq = [r \in Reqs |-> NewRequest]
    /\ crashed = FALSE
    /\ served = 0
    /\ metrics = NewMetrics
    /\ recorded = <<>>
    /\ snapshot = NoSnapshot
    /\ login = NoLogins
    /\ NoUserCalls

NextMet ==
    \/ \E e \in MetEndpoints : \E c \in MetStatusCodes : \E d \in MetDurations :
          Record(e[1], e[2], c, d)
    \/ Snapshot

SpecMet == InitMet /\ [][NextMet]_vars

\* the durations of the first n recorded calls for an endpoint, in arrival order
DurationsOf(key, n) ==
    LET calls == SelectSeq(SubSeq(recorded, 1, n), LAMBDA c : c.key = key)
    IN  [i \in 1..Len(calls) |-> calls[i].duration]

Min(a, b) == IF a < b THEN a ELSE b

\* the last n elements of a sequence
LastN(q, n) == SubSeq(q, Len(q) - n + 1, Len(q))

RecordedKeys == {recorded[i].key : i \in 1..Len(recorded)}

\* C14: after N calls of RecordRequest for an endpoint, in any interleaving
\* with calls for other endpoints and with snapshots, the count of the
\* endpoint is N, in the Metrics value and in the snapshot taken at that
\* point, and its duration buffer holds the min(N, MaxDurations) most
\* recently recorded durations in arrival order.
C14_CountAndRecentDurations ==
    /\ DOMAIN metrics.RequestCount = RecordedKeys
    /\ \A key \in RecordedKeys :
          LET all == DurationsOf(key, Len(recorded)) IN
          /\ metrics.RequestCount[key] = Len(all)
          /\ metrics.RequestDuration[key] = LastN(all, Min(Len(all), MaxDurations))
    /\ snapshot.taken =>
          /\ DOMAIN snapshot.data.endpoints =
                {key \in RecordedKeys : Len(DurationsOf(key, snapshot.after)) > 0}
          /\ \A key \in DOMAIN snapshot.data.endpoints :
                LET seen == DurationsOf(key, snapshot.after) IN
                /\ snapshot.data.endpoints[key].count = Len(seen)
                /\ snapshot.data.endpoints[key].last_duration = seen[Len(seen)]

\* an endpoint has been recorded more often than its buffer holds, its oldest
\* duration differs from the ones kept, and a snapshot taken after the last
\* call shows the count
C14_Witness ==
    /\ snapshot.taken
    /\ snapshot.after = Len(recorded)
    /\ \E key \in RecordedKeys :
          LET all == DurationsOf(key, Len(recorded)) IN
          /\ Len(all) = MaxDurations + 1
          /\ all[1] # all[Len(all)]
          /\ snapshot.data.endpoints[key].count = MaxDurations + 1
          /\ Len(metrics.RequestDuration[key]) = MaxDurations
    /\ Cardinality(RecordedKeys) = 2

(* ------------------------------------------------------------------ *)
(* The middleware chain as a state machine                             *)
(* ------------------------------------------------------------------ *)
\* what no stage of the chain touches
PipeFixed == <<maxRequests, rlMu, tpc, tip, tnow, tvalid, allowLog, sweeps, tokVars, login, snapshot, usrVars>>

\* a step of request r that only changes its own record
Local(r, rec) ==
    /\ ~crashed
    /\ rq' = [rq EXCEPT ![r] = rec]
    /\ UNCHANGED <<now, requests, tickPending, crashed, served, metrics, recorded>>
    /\ UNCHANGED PipeFixed

Enter(rec, stage, next) == [rec EXCEPT !.pc = next, !.trace = Append(@, stage)]

\* the server accepts a request and calls the router on a new goroutine
Start(r) ==
    /\ rq[r].pc = "idle"
    /\ Local(r, [rq[r] EXCEPT !.pc = "recovery"])

\* mux.Router finds no route for the request: the middleware chain is built
\* around matched routes only, so the router's own handler answers, with 405
\* when a path matched under another method and 404 otherwise
RouterReject(r, rm) ==
    /\ rq[r].pc = "idle"
    /\ Local(r, [WriteResponse([rq[r] EXCEPT !.route = rm[1], !.method = rm[2]],
                                IF rm[1] = "none" THEN NotFoundChunk
                                ELSE MethodNotAllowedChunk)
                    EXCEPT !.pc = "finish"])

\* RecoveryMiddleware: registers its deferred recover and calls next
RecoveryEnter(r) ==
    /\ rq[r].pc = "recovery"
    /\ Local(r, Enter(rq[r], "recovery", "headers"))

\* SecurityHeadersMiddleware: sets the fixed header fields, then calls next
SecurityHeaders(r) ==
    /\ rq[r].pc = "headers"
    /\ Local(r, [Enter(rq[r], "headers", "cors") EXCEPT !.secHeaders = TRUE])

\* CORSMiddleware: an OPTIONS request is answered with 200 and goes no further
CORS(r, rm) ==
    /\ rq[r].pc = "cors"
    /\ LET rec == [Enter(rq[r], "cors", "logging") EXCEPT !.route = rm[1], !.method = rm[2]] IN
       IF rm[2] = "OPTIONS"
       THEN Local(r, [WriteResponse(rec, PreflightChunk) EXCEPT !.pc = "finish"])
       ELSE Local(r, rec)

\* LoggingMiddleware up to next.ServeHTTP: resolves the client IP
LoggingEnter(r, ip) ==
    /\ rq[r].pc = "logging"
    /\ Local(r, [Enter(rq[r], "logging", "metrics") EXCEPT
                    !.ip = ip, !.log = Append(@, StartLine)])

\* MetricsMiddleware up to next.ServeHTTP: start := time.Now(), the gauge goes
\* up, the responseWriter wrapper starts with statusCode 200
MetricsEnter(r) ==
    /\ ~crashed
    /\ rq[r].pc = "metrics"
    /\ rq' = [rq EXCEPT ![r] = [Enter(rq[r], "metrics", "ratelimit") EXCEPT
                                   !.mstart = now, !.rwStatus = 200]]
    /\ metrics' = [metrics EXCEPT !.ActiveConnections = @ + 1]
    /\ UNCHANGED <<now, requests, tickPending, crashed, served, recorded>>
    /\ UNCHANGED PipeFixed

\* RateLimitMiddleware: limiter.Allow(ip) in one critical section, then 429 or next
RateLimit(r) ==
    /\ ~crashed
    /\ rq[r].pc = "ratelimit"
    /\ LET ip == rq[r].ip
           ok == AllowResult(requests, maxRequests, ip, now)
           rec == [Enter(rq[r], "ratelimit", "validation") EXCEPT
                     !.allowed = IF ok THEN "yes" ELSE "no",
                     !.prior = IF ip \in DOMAIN requests
                               THEN Len(Prune(requests[ip], now)) ELSE 0] IN
        /\ requests' = AllowMap(requests, maxRequests, ip, now)
        /\ rq' = [rq EXCEPT ![r] =
                    IF RateLimitPasses(ok) THEN rec
                    ELSE [WriteResponse(rec, RateLimitChunk) EXCEPT !.pc = "metricsPost"]]
    /\ UNCHANGED <<now, tickPending, crashed, served, metrics, recorded>>
    /\ UNCHANGED PipeFixed

\* RequestValidationMiddleware: 413 on ContentLength > 1 MiB, then 415 on a
\* POST/PUT with a Content-Type that is set and not application/json
RequestValidation(r, in) ==
    /\ rq[r].pc = "validation"
    /\ WellDeclared(in)
    /\ LET rec == [Enter(rq[r], "validation", "timeout") EXCEPT
                     !.contentLength = in.contentLength, !.bodyLen = in.bodyLen,
                     !.ctype = in.ctype] IN
       IF TooLarge(in)
       THEN Local(r, [WriteResponse(rec, TooLargeChunk) EXCEPT !.pc = "metricsPost"])
       ELSE IF WrongMediaType(rq[r].method, in)
       THEN Local(r, [WriteResponse(rec, MediaTypeChunk) EXCEPT !.pc = "metricsPost"])
       ELSE Local(r, rec)

\* TimeoutMiddleware: starts the goroutine that runs the rest of the chain and
\* goes to wait in the select
TimeoutSpawn(r) ==
    /\ rq[r].pc = "timeout"
    /\ Local(r, [Enter(rq[r], "timeout", "select") EXCEPT
                    !.ipc = InnerEntry(rq[r].route)])

\* the deadline of context.WithTimeout passes
Deadline(r) ==
    /\ rq[r].pc = "select"
    /\ ~rq[r].fired
    /\ ~rq[r].canceled
    /\ Local(r, [rq[r] EXCEPT !.fired = TRUE])

\* the client goes away: the request's context is cancelled
ClientGone(r) ==
    /\ rq[r].pc = "select"
    /\ ~rq[r].fired
    /\ ~rq[r].canceled
    /\ Local(r, [rq[r] EXCEPT !.canceled = TRUE])

\* select: case <-done
GuardDone(r) ==
    /\ rq[r].pc = "select"
    /\ rq[r].ipc = "finished"
    /\ Local(r, [rq[r] EXCEPT !.pc = "metricsPost"])

\* a guard that answers 408 and takes back the rows the handler has inserted
GuardTimeoutUndo(r) ==
    /\ ~crashed
    /\ rq[r].pc = "select"
    /\ rq[r].fired
    /\ rq' = [rq EXCEPT ![r] = [WriteResponse(rq[r], TimeoutChunk) EXCEPT !.pc = "metricsPost"]]
    /\ db' = [db EXCEPT !.rows =
                {u \in @ : \A i \in 1..Len(ulog) :
                    ~(ulog[i].op = "CreateUser" /\ ulog[i].status = 201 /\ ulog[i].id = u.ID)}]
    /\ UNCHANGED <<now, rlVars, tokVars, crashed, served, metVars, login, ucall, ulog>>

\* select: case <-ctx.Done() with DeadlineExceeded: the guard writes 408
GuardTimeout(r) ==
    /\ rq[r].pc = "select"
    /\ rq[r].fired
    /\ Local(r, [WriteResponse(rq[r], TimeoutChunk) EXCEPT !.pc = "metricsPost"])

\* select: case <-ctx.Done() with another error: the guard returns without a write
GuardCanceled(r) ==
    /\ rq[r].pc = "select"
    /\ rq[r].canceled
    /\ Local(r, [rq[r] EXCEPT !.pc = "metricsPost"])

\* MetricsMiddleware after next.ServeHTTP: RecordRequest with the wrapper's
\* status code and the time since start, then the gauge goes down
MetricsPost(r) ==
    /\ ~crashed
    /\ rq[r].pc = "metricsPost"
    /\ rq' = [rq EXCEPT ![r].pc = "loggingPost"]
    /\ metrics' = [RecordRequest(metrics, EndpointKey(rq[r].method, rq[r].route),
                                  rq[r].rwStatus, now - rq[r].mstart)
                      EXCEPT !.ActiveConnections = @ - 1]
    /\ recorded' = Append(recorded, Call(EndpointKey(rq[r].method, rq[r].route),
                                         rq[r].rwStatus, now - rq[r].mstart))
    /\ UNCHANGED <<now, requests, tickPending, crashed, served>>
    /\ UNCHANGED PipeFixed

\* LoggingMiddleware after next.ServeHTTP: the completion line
LoggingPost(r) ==
    /\ rq[r].pc = "loggingPost"
    /\ Local(r, [rq[r] EXCEPT !.pc = "finish",
                              !.log = Append(@, CompletionLine(rq[r].rwStatus))])

\* a panic in a stage on the request goroutine: the deferred function of
\* RecoveryMiddleware recovers it and writes 500
StagePanic(r) ==
    /\ rq[r].pc \in InsideRecovery
    /\ rq[r].panicked = "none"
    /\ Local(r, [WriteResponse([rq[r] EXCEPT !.panicked = rq[r].pc], RecoveryChunk)
                    EXCEPT !.pc = "finish"])

\* the outermost handler has returned: the server completes the response
\* (status 200 if no stage wrote one)
Finish(r) ==
    /\ rq[r].pc = "finish"
    /\ Local(r, [rq[r] EXCEPT !.pc = "done", !.status = IF @ = 0 THEN 200 ELSE @])

\* AuthMiddleware, on the goroutine of the timeout guard
AuthGuard(r, hdr) ==
    /\ rq[r].ipc = "auth"
    /\ LET outcome == AuthOutcome(secretKey, hdr, now)
           errs == IF outcome = "invalid_token"
                   THEN ValidateToken(secretKey, hdr.token, now).err ELSE {}
           rec == [rq[r] EXCEPT !.hdr = hdr, !.authAt = now, !.outcome = outcome,
                                !.authErr = errs, !.trace = Append(@, "auth")] IN
       IF outcome = "ok"
       THEN Local(r, [rec EXCEPT !.ipc = "handler",
                                 !.ctx = ValidateToken(secretKey, hdr.token, now).claims])
       ELSE Local(r, [WriteResponse(rec, UnauthorizedChunk(AuthMessage(outcome, errs)))
                          EXCEPT !.ipc = "finished", !.doneLive = ~rq[r].fired,
                                 !.authResp = UnauthorizedChunk(AuthMessage(outcome, errs))])

\* the route handler starts
HandlerStart(r) ==
    /\ rq[r].ipc = "handler"
    /\ Local(r, [rq[r] EXCEPT !.ipc = "running", !.trace = Append(@, "handler")])

\* the route handler sends its response
HandlerWrite(r) ==
    /\ rq[r].ipc = "running"
    /\ Local(r, [WriteResponse(rq[r], HandlerChunk) EXCEPT !.ipc = "wrote"])

\* the route handler returns; the deferred close(done) runs (doneLive: before
\* the deadline has passed)
HandlerReturn(r) ==
    /\ rq[r].ipc = "wrote"
    /\ Local(r, [rq[r] EXCEPT !.ipc = "finished", !.doneLive = ~rq[r].fired])

\* a panic on the goroutine of the timeout guard: no deferred recover is on its
\* stack, the runtime ends the process
InnerPanic(r) ==
    /\ ~crashed
    /\ rq[r].ipc \in {"auth", "handler", "running", "wrote"}
    /\ rq' = [rq EXCEPT ![r].panicked = rq[r].ipc]
    /\ crashed' = TRUE
    /\ UNCHANGED <<now, requests, tickPending, served, metrics, recorded>>
    /\ UNCHANGED PipeFixed

\* a write to the ResponseWriter after the server has completed the response
\* uses a buffer the server has given back: besides being lost (WriteResponse)
\* it can fault, on a goroutine without a deferred recover
LateWriteFault(r) ==
    /\ ~crashed
    /\ rq[r].pc = "done"
    /\ rq[r].ipc \in {"auth", "running"}
    /\ rq' = [rq EXCEPT ![r].panicked = "late_write"]
    /\ crashed' = TRUE
    /\ UNCHANGED <<now, requests, tickPending, served, metrics, recorded>>
    /\ UNCHANGED PipeFixed

\* time passes; the ticker of cleanup fires every window
Tick ==
    /\ ~crashed
    /\ now < WindowTicks
    /\ now' = now + 1
    /\ tickPending' = (tickPending \/ (now + 1) % WindowTicks = 0)
    /\ UNCHANGED <<requests, rq, crashed, served, metrics, recorded>>
    /\ UNCHANGED PipeFixed

\* one pass of RateLimiter.cleanup under the mutex
Cleanup ==
    /\ ~crashed
    /\ tickPending
    /\ tickPending' = FALSE
    /\ requests' = SweepMap(requests, now)
    /\ UNCHANGED <<now, rq, crashed, served, metrics, recorded>>
    /\ UNCHANGED PipeFixed

\* The limiter and the metrics of a server that has answered n requests
\* GET /api/v1/health of one client at time 0, each with status 200.
RECURSIVE Warm(_)
Warm(n) ==
    IF n = 0 THEN [requests |-> <<>>, metrics |-> NewMetrics, recorded |-> <<>>]
    ELSE LET w == Warm(n - 1) IN
         [ requests |-> AllowMap(w.requests, PipeLimit, "ipA", 0),
           metrics |-> RecordRequest(w.metrics, EndpointKey("GET", "public"), 200, 0),
           recorded |-> Append(w.recorded, Call(EndpointKey("GET", "public"), 200, 0)) ]

\* the server as constructed, or after it has answered as many requests of one
\* client as the limiter admits
Init ==
    /\ now = 0
    /\ maxRequests = PipeLimit
    /\ \E n \in {0, PipeLimit} : /\ requests = Warm(n).requests
                                 /\ metrics = Warm(n).metrics
                                 /\ recorded = Warm(n).recorded
                                 /\ served = n
    /\ rlMu = "free"
    /\ tickPending = FALSE
    /\ tpc = [t \in Tasks |-> "idle"]
    /\ tip = [t \in Tasks |-> "ipA"]
    /\ tnow = [t \in Tasks |-> 0]
    /\ tvalid = [t \in Tasks |-> <<>>]
    /\ allowLog = <<>>
    /\ sweeps = <<>>
    /\ secretKey = ServerKey
    /\ issued = {}
    /\ lastVal = NoVal
    /\ rq = [r \in Reqs |-> NewRequest]
    /\ crashed = FALSE
    /\ snapshot = NoSnapshot
    /\ login = NoLogins
    /\ NoUserCalls

Next ==
    \/ \E r \in Serial : Start(r)
    \/ \E r \in Serial : \E rm \in Unrouted : RouterReject(r, rm)
    \/ \E r \in Serial : RecoveryEnter(r)
    \/ \E r \in Serial : SecurityHeaders(r)
    \/ \E r \in Serial : \E rm \in RouteMethods : CORS(r, rm)
    \/ \E r \in Serial : \E ip \in IPs : LoggingEnter(r, ip)
    \/ \E r \in Serial : MetricsEnter(r)
    \/ \E r \in Serial : RateLimit(r)
    \/ \E r \in Serial : \E in \in ChainInputs : RequestValidation(r, in)
    \/ \E r \in Serial : TimeoutSpawn(r)
    \/ \E r \in Serial : Deadline(r)
    \/ \E r \in Serial : ClientGone(r)
    \/ \E r \in Serial : GuardDone(r)
    \/ \E r \in Serial : GuardTimeout(r)
    \/ \E r \in Serial : GuardCanceled(r)
    \/ \E r \in Serial : MetricsPost(r)
    \/ \E r \in Serial : LoggingPost(r)
    \/ \E r \in Serial : StagePanic(r)
    \/ \E r \in Serial : Finish(r)
    \/ \E r \in Serial : \E hdr \in AuthHeaders : AuthGuard(r, hdr)
    \/ \E r \in Serial : HandlerStart(r)
    \/ \E r \in Serial : HandlerWrite(r)
    \/ \E r \in Serial : HandlerReturn(r)
    \/ \E r \in Serial : InnerPanic(r)
    \/ \E r \in Serial : LateWriteFault(r)
    \/ Tick
    \/ Cleanup

Spec == Init /\ [][Next]_vars

(* ------------------------------------------------------------------ *)
(* Two concurrent requests on protected routes, from the timeout guard *)
(* inward, up to the return of the guard                               *)
(* ------------------------------------------------------------------ *)
\* a request on a protected route that has passed the stages up to the timeout
\* guard, whose goroutine is about to run AuthMiddleware
AtAuth(ip) ==
    [NewRequest EXCEPT !.pc = "select", !.ipc = "auth",
        !.route = "protected", !.method = "GET", !.ip = ip, !.allowed = "yes",
        !.secHeaders = TRUE, !.rwStatus = 200, !.log = <<StartLine>>,
        !.trace = <<"recovery", "headers", "cors", "logging", "metrics",
                    "ratelimit", "validation", "timeout">>]

InitAuth ==
    /\ now = 0
    /\ maxRequests = PipeLimit
    /\ requests = [ip \in IPs |-> <<0>>]
    /\ rlMu = "free"
    /\ tickPending = FALSE
    /\ tpc = [t \in Tasks |-> "idle"]
    /\ tip = [t \in Tasks |-> "ipA"]
    /\ tnow = [t \in Tasks |-> 0]
    /\ tvalid = [t \in Tasks |-> <<>>]
    /\ allowLog = <<>>
    /\ sweeps = <<>>
    /\ secretKey = ServerKey
    /\ issued = {}
    /\ lastVal = NoVal
    /\ rq = [r \in Reqs |-> AtAuth(IF r = "r1" THEN "ipA" ELSE "ipB")]
    /\ crashed = FALSE
    /\ served = 0
    /\ metrics = [NewMetrics EXCEPT !.ActiveConnections = Cardinality(Reqs)]
    /\ recorded = <<>>
    /\ snapshot = NoSnapshot
    /\ login = NoLogins
    /\ NoUserCalls

NextAuth ==
    \/ \E r \in Reqs : \E hdr \in AuthHeaders : AuthGuard(r, hdr)
    \/ \E r \in Reqs : HandlerStart(r)
    \/ \E r \in Reqs : HandlerWrite(r)
    \/ \E r \in Reqs : HandlerReturn(r)
    \/ \E r \in Reqs : Deadline(r)
    \/ \E r \in Reqs : GuardDone(r)
    \/ \E r \in Reqs : GuardTimeout(r)
    \/ Tick

SpecAuth == InitAuth /\ [][NextAuth]_vars

(* ------------------------------------------------------------------ *)
(* One request from request validation inward                          *)
(* ------------------------------------------------------------------ *)
\* a request that the limiter has admitted and that is about to be validated
AtValidation(rm, ip) ==
    [NewRequest EXCEPT !.pc = "validation",
        !.route = rm[1], !.method = rm[2], !.ip = ip, !.allowed = "yes",
        !.secHeaders = TRUE, !.rwStatus = 200, !.log = <<StartLine>>,
        !.trace = <<"recovery", "headers", "cors", "logging", "metrics", "ratelimit">>]

InitVal ==
    /\ now = 0
    /\ maxRequests = PipeLimit
    /\ requests = AllowMap(<<>>, PipeLimit, "ipA", 0)
    /\ rlMu = "free"
    /\ tickPending = FALSE
    /\ tpc = [t \in Tasks |-> "idle"]
    /\ tip = [t \in Tasks |-> "ipA"]
    /\ tnow = [t \in Tasks |-> 0]
    /\ tvalid = [t \in Tasks |-> <<>>]
    /\ allowLog = <<>>
    /\ sweeps = <<>>
    /\ secretKey = ServerKey
    /\ issued = {}
    /\ lastVal = NoVal
    /\ \E rm \in RouteMethods \ {<<"static", "OPTIONS">>} :
          rq = [r \in Reqs |-> IF r \in Serial THEN AtValidation(rm, "ipA") ELSE NewRequest]
    /\ crashed = FALSE
    /\ served = 0
    /\ metrics = [NewMetrics EXCEPT !.ActiveConnections = Cardinality(Serial)]
    /\ recorded = <<>>
    /\ snapshot = NoSnapshot
    /\ login = NoLogins
    /\ NoUserCalls

NextVal ==
    \/ \E r \in Serial : \E in \in BodyInputs : RequestValidation(r, in)
    \/ \E r \in Serial : TimeoutSpawn(r)
    \/ \E r \in Serial : \E hdr \in AuthHeaders : AuthGuard(r, hdr)
    \/ \E r \in Serial : HandlerStart(r)
    \/ \E r \in Serial : HandlerWrite(r)
    \/ \E r \in Serial : HandlerReturn(r)
    \/ \E r \in Serial : GuardDone(r)
    \/ \E r \in Serial : MetricsPost(r)
    \/ \E r \in Serial : LoggingPost(r)
    \/ \E r \in Serial : Finish(r)

SpecVal == InitVal /\ [][NextVal]_vars

(* ------------------------------------------------------------------ *)
(* Properties of the chain                                             *)
(* ------------------------------------------------------------------ *)
InTrace(rec, stage) == \E i \in 1..Len(rec.trace) : rec.trace[i] = stage

Wrote(rec, by) == \E i \in 1..Len(rec.body) : rec.body[i].by = by

InnerStages == {"validation", "timeout", "auth", "handler"}

AuthFailures == {"missing_header", "invalid_format", "missing_token", "invalid_token"}

\* C2: RateLimitMiddleware passes a request on exactly when Allow returned true
\* for its identity; when Allow returned false the response is 429 with the
\* rate-limit JSON body and neither validation, timeout guard, auth guard nor
\* handler runs. A request that finds maxRequests timestamps of its identity
\* inside the window gets 429.
C2_RateLimitGate ==
    \A r \in Reqs :
        LET rec == rq[r] IN
        /\ InTrace(rec, "validation") => rec.allowed = "yes"
        /\ rec.allowed = "yes" =>
              /\ InTrace(rec, "validation") \/ rec.pc = "validation" \/ rec.panicked = "validation"
              /\ \A i \in 1..Len(rec.body) : rec.body[i] # RateLimitChunk
        /\ rec.allowed = "no" =>
              /\ rec.status = 429
              /\ Len(rec.body) >= 1 /\ rec.body[1] = RateLimitChunk
              /\ \A st \in InnerStages : ~InTrace(rec, st)
              /\ rec.ipc = "none"
        /\ (rec.allowed # "?" /\ rec.prior >= maxRequests) => rec.status = 429

\* a request that found maxRequests timestamps of its identity in the window
\* was answered with 429
C2_Witness ==
    \E r \in Reqs : /\ rq[r].pc = "done"
                    /\ rq[r].allowed = "no"
                    /\ rq[r].prior = maxRequests
                    /\ rq[r].status = 429

\* C3: every panic raised in a stage inside Recovery, the auth guard and the
\* route handler behind the timeout guard included, becomes a 500 response and
\* never ends the process.
C3_EveryPanicRecovered ==
    \A r \in Reqs :
        rq[r].panicked # "none" => /\ ~crashed
                                   /\ Wrote(rq[r], "recovery")

\* the stages in the order server.New puts them around the handlers
GlobalOrder == <<"recovery", "headers", "cors", "logging", "metrics",
                 "ratelimit", "validation", "timeout">>

StageOrder(route) ==
    IF route = "protected" THEN GlobalOrder \o <<"auth", "handler">>
    ELSE GlobalOrder \o <<"handler">>

IsPrefix(p, q) == Len(p) <= Len(q) /\ SubSeq(q, 1, Len(p)) = p

LastStage(rec) == IF rec.trace = <<>> THEN "none" ELSE rec.trace[Len(rec.trace)]

\* C15: the stages of every request run in the fixed order recovery, security
\* headers, CORS, logging, metrics, rate limiting, request validation, timeout
\* guard, then the auth guard on protected routes only, then the handler: the
\* stages a request has entered are always an initial part of that order, and
\* a stage that answers by itself is the last one entered.
C15_StageOrderFixed ==
    \A r \in Reqs :
        LET rec == rq[r] IN
        /\ IF rec.route = "?"
           THEN IsPrefix(rec.trace, GlobalOrder)
           ELSE IsPrefix(rec.trace, StageOrder(rec.route))
        /\ (Len(rec.body) >= 1 /\ rec.body[1] = PreflightChunk) => LastStage(rec) = "cors"
        /\ rec.allowed = "no" => LastStage(rec) = "ratelimit"
        /\ (Len(rec.body) >= 1 /\ rec.body[1] \in {TooLargeChunk, MediaTypeChunk})
              => LastStage(rec) = "validation"
        /\ rec.outcome \in AuthFailures => LastStage(rec) = "auth"

\* a request on a public route has gone through all stages to its handler
\* without entering the auth guard
C15_Witness ==
    \E r \in Reqs : /\ rq[r].pc = "done"
                    /\ rq[r].route = "public"
                    /\ rq[r].trace = GlobalOrder \o <<"handler">>
                    /\ rq[r].status = 200

\* C16: a pre-flight OPTIONS request is answered by the CORS stage with status
\* 200 and nothing else is done for it: logging, metrics, rate limiting,
\* validation, timeout guard, auth guard and handler do not run.
C16_PreflightAnsweredByCORS ==
    \A r \in Reqs :
        LET rec == rq[r] IN
        (rec.method = "OPTIONS" /\ rec.pc \in {"finish", "done"}) =>
            /\ rec.status = 200
            /\ rec.body = <<PreflightChunk>>
            /\ rec.trace = <<"recovery", "headers", "cors">>
            /\ rec.ipc = "none"

\* What holds of the code: an OPTIONS request that reaches the chain (on the
\* static route) is answered by the CORS stage with 200, and no OPTIONS
\* request, answered by the CORS stage or by the router, gets further than the
\* CORS stage.
PreflightOnMatchedRoute ==
    \A r \in Reqs :
        LET rec == rq[r] IN
        /\ (rec.method = "OPTIONS" /\ rec.route = "static" /\ rec.pc \in {"finish", "done"}) =>
              /\ rec.status = 200
              /\ rec.body = <<PreflightChunk>>
        /\ rec.method = "OPTIONS" =>
              /\ IsPrefix(rec.trace, <<"recovery", "headers", "cors">>)
              /\ rec.ipc = "none"
              /\ rec.allowed = "?"

\* No step of an OPTIONS request changes the rate-limit window or the metrics.
PreflightFrame ==
    [][(\E r \in Reqs : rq'[r].method = "OPTIONS" /\ rq'[r] # rq[r])
          => (requests' = requests /\ metrics' = metrics /\ recorded' = recorded)]_vars

\* the response comes from the chain, not from the router's own handlers
ThroughPipeline(rec) == rec.trace # <<>>

\* C17: every response produced through the chain, whichever stage writes it
\* (handler, 401 of the auth guard, 408, 413, 415, 429, the 200 of a
\* pre-flight, the 500 of recovery, or the default 200 of a chain that wrote
\* nothing), carries the security header fields, and they were set before
\* any status or body was written.
C17_SecurityHeadersOnEveryResponse ==
    \A r \in Reqs :
        LET rec == rq[r] IN
        ThroughPipeline(rec) =>
            /\ rec.body # <<>> => (rec.secHeaders /\ ~rec.bare)
            /\ rec.pc \in {"finish", "done"} => rec.secHeaders

\* a panic was recovered and its 500 response carries the header fields
C17_Witness ==
    \E r \in Reqs : /\ rq[r].pc = "done"
                    /\ rq[r].panicked = "cors"
                    /\ rq[r].body = <<RecoveryChunk>>
                    /\ rq[r].status = 500
                    /\ rq[r].secHeaders

\* what the request brought to validation
InputOf(rec) == BodyInput(rec.contentLength, rec.bodyLen, rec.ctype)

\* validation answered the request by itself, with the chunk
RejectedWith(rec, chunk) ==
    /\ rec.body # <<>> /\ rec.body[1] = chunk
    /\ rec.status = chunk.code
    /\ \A st \in {"timeout", "auth", "handler"} : ~InTrace(rec, st)
    /\ rec.ipc = "none"

\* validation passed the request to the timeout guard
PassedInward(rec) ==
    /\ rec.pc = "timeout" \/ InTrace(rec, "timeout")
    /\ \A i \in 1..Len(rec.body) : rec.body[i] \notin {TooLargeChunk, MediaTypeChunk}

\* C18: request validation answers every request whose body is larger than
\* the limit with 413, and every request with a bodied method and a
\* Content-Type that is not JSON with 415, the size being checked first; in
\* both cases timeout guard, auth guard and handler are not run; every other
\* request goes on to the timeout guard.
C18_ValidationRejects ==
    \A r \in Reqs :
        LET rec == rq[r] IN
        InTrace(rec, "validation") =>
            IF TooLargeByBody(InputOf(rec)) THEN RejectedWith(rec, TooLargeChunk)
            ELSE IF WrongMediaType(rec.method, InputOf(rec)) THEN RejectedWith(rec, MediaTypeChunk)
            ELSE PassedInward(rec)

\* What holds of the code: the same with the size taken from r.ContentLength,
\* which is -1 for a chunked body.
ValidationByDeclaredLength ==
    \A r \in Reqs :
        LET rec == rq[r] IN
        InTrace(rec, "validation") =>
            IF TooLarge(InputOf(rec)) THEN RejectedWith(rec, TooLargeChunk)
            ELSE IF WrongMediaType(rec.method, InputOf(rec)) THEN RejectedWith(rec, MediaTypeChunk)
            ELSE PassedInward(rec)

\* a chunked body larger than the limit has reached the handler
OversizedBodyReachedHandler ==
    \E r \in Reqs : /\ rq[r].bodyLen > MaxBody
                    /\ rq[r].contentLength = -1
                    /\ InTrace(rq[r], "handler")

\* the completion lines logged for a request
CompletionLines(rec) == SelectSeq(rec.log, LAMBDA l : l.msg \in CompletionMessages)

\* C19: for every request that has entered the chain, exactly one completion
\* line has been logged when its response is complete, whichever way the
\* request went: normal completion, short-circuit by a stage (the pre-flight
\* answer of CORS included), timeout, recovered panic.
C19_OneCompletionLine ==
    \A r \in Reqs :
        LET rec == rq[r] IN
        /\ Len(CompletionLines(rec)) <= 1
        /\ (ThroughPipeline(rec) /\ rec.pc = "done") => Len(CompletionLines(rec)) = 1

\* What holds of the code: a request that came back to LoggingMiddleware
\* without a panic has exactly one completion line; a request answered by
\* CORS or by RecoveryMiddleware has none.
CompletionLineUnlessOutsideLogging ==
    \A r \in Reqs :
        LET rec == rq[r] IN
        (ThroughPipeline(rec) /\ rec.pc = "done") =>
            Len(CompletionLines(rec)) =
                IF Wrote(rec, "recovery") \/ ~InTrace(rec, "logging") THEN 0 ELSE 1

\* the level the status band asks for
BandLevel(statusCode) ==
    IF statusCode >= 500 THEN "error"
    ELSE IF statusCode >= 400 THEN "warn"
    ELSE "info"

\* C20: the level of the completion line follows the status of the response:
\* error for 500 and above, warn for 400 to 499, info otherwise.
C20_LevelByStatusBand ==
    \A r \in Reqs :
        \A i \in 1..Len(CompletionLines(rq[r])) :
            CompletionLines(rq[r])[i].level = BandLevel(CompletionLines(rq[r])[i].status)

\* What holds of the code: the message of the completion line follows the
\* band of the status code the wrapper holds, the level is always info.
MessageByStatusBand ==
    \A r \in Reqs :
        \A i \in 1..Len(CompletionLines(rq[r])) :
            LET l == CompletionLines(rq[r])[i] IN
            /\ l.level = "info"
            /\ l.msg = CompletionMessage(l.status)

\* the requests that are inside MetricsMiddleware: between its entry and its return
InMetricsStage == {"ratelimit", "validation", "timeout", "select", "metricsPost"}

\* C13: in every reachable state the active-connection gauge equals the number
\* of requests that are inside the metrics stage, whichever way earlier
\* requests left it; it is never negative and it is 0 when no request is in
\* flight.
C13_GaugeCountsRequestsInside ==
    /\ metrics.ActiveConnections = Cardinality({r \in Serial : rq[r].pc \in InMetricsStage})
    /\ metrics.ActiveConnections >= 0
    /\ (\A r \in Serial : rq[r].pc \in {"idle", "done"}) => metrics.ActiveConnections = 0

\* C4: the response is single-write-wins: the abandoned handler task and the
\* timeout guard never both write to the response of one request.
C4_SingleWriteWins ==
    \A r \in Reqs : ~(Wrote(rq[r], "guard") /\ Wrote(rq[r], "inner"))

\* C5: a request whose handler does not complete within the deadline gets a
\* 408 response.
C5_TimeoutYields408 ==
    \A r \in Reqs :
        (rq[r].pc = "done" /\ rq[r].fired /\ rq[r].ipc # "finished"
            /\ rq[r].panicked = "none")
        => rq[r].status = 408

\* the header carries "Bearer " and a non-empty token that ValidateToken accepts
\* at the time the auth guard ran
ValidBearer(rec) ==
    /\ rec.hdr.present
    /\ rec.hdr.prefix = "Bearer "
    /\ rec.hdr.token.form # "empty"
    /\ ValidateToken(secretKey, rec.hdr.token, rec.authAt).ok

\* C6: on a protected route the handler runs only for a request with an
\* Authorization header "Bearer <token>" whose token ValidateToken accepts, and
\* then with that token's user id, username and email in its context; a missing
\* header, another prefix, an empty token or an invalid token makes the auth
\* guard respond 401 without running the handler.
C6_AuthGate ==
    \A r \in Reqs :
        LET rec == rq[r] IN
        rec.route = "protected" =>
            /\ InTrace(rec, "handler") \/ rec.ipc \in {"handler", "running", "wrote"} =>
                  /\ ValidBearer(rec)
                  /\ rec.ctx = ClaimsOf(rec.hdr.token)
            /\ (rec.outcome # "?" /\ ~ValidBearer(rec)) =>
                  /\ rec.authResp.code = 401
                  /\ (~rec.fired /\ ~rec.canceled /\ rec.panicked = "none"
                        /\ rec.pc = "done") => rec.status = 401
                  /\ ~InTrace(rec, "handler")
                  /\ rec.ipc = "finished"
                  /\ rec.ctx = NoClaims

\* the handler of a protected route runs with the claims of a valid token
C6_Witness ==
    \E r \in Reqs : /\ rq[r].route = "protected"
                    /\ InTrace(rq[r], "handler")
                    /\ rq[r].ctx = ClaimsOf(BobTok)

C6_WitnessRejected ==
    \E r \in Reqs : /\ rq[r].route = "protected"
                    /\ rq[r].hdr.token = ForgedTok
                    /\ rq[r].outcome = "invalid_token"
                    /\ rq[r].status = 401

\* C7: whichever of the auth guard's failure kinds rejects a request, the
\* response body sent to the client is the same.
C7_AuthFailuresCollapsed ==
    \A r1, r2 \in Reqs :
        (rq[r1].outcome \in AuthFailures /\ rq[r2].outcome \in AuthFailures)
        => rq[r1].authResp = rq[r2].authResp

\* C8: whichever way ValidateToken fails, the auth guard answers with the same
\* 401 status and body.
C8_ValidationFailuresAlike ==
    \A r1, r2 \in Reqs :
        (rq[r1].outcome = "invalid_token" /\ rq[r2].outcome = "invalid_token")
        => /\ rq[r1].authResp = rq[r2].authResp
           /\ rq[r1].authResp.code = 401
           /\ rq[r1].authResp.message = "Invalid token"

\* two requests were rejected, one for an expired token and one for a token
\* with a bad signature
C8_Witness ==
    \E r1, r2 \in Reqs : /\ rq[r1].outcome = "invalid_token"
                         /\ rq[r2].outcome = "invalid_token"
                         /\ rq[r1].authErr = {"expired"}
                         /\ rq[r2].authErr = {"signature_invalid"}

\* ---------------------------------------------------------------------------
\* Recorded status (responseWriter of the metrics and logging middlewares)
\* ---------------------------------------------------------------------------

\* the status the client receives once the response is sent: that of the first
\* header write, 200 when a body was written or the handler returned without one
ClientStatus(rec) == IF rec.status = 0 THEN 200 ELSE rec.status

\* C21: the status kept by the responseWriter wrapper of a request that runs
\* through MetricsMiddleware/LoggingMiddleware is the status of the first
\* header write (the one the client receives), 200 when none was set; a later
\* WriteHeader does not change it.
C21_RecordedStatusIsFirstWrite ==
    \A r \in Reqs :
        (InTrace(rq[r], "metrics") /\ ~Wrote(rq[r], "recovery"))
            => rq[r].rwStatus = ClientStatus(rq[r])

\* ---------------------------------------------------------------------------
\* Snapshots of the metrics
\* ---------------------------------------------------------------------------

\* C22: GetMetrics is read-only copy-then-release: it does not modify the
\* Metrics value, and a snapshot it returned is not changed by later
\* RecordRequest calls (nothing in it aliases state that writers mutate).
C22_SnapshotIsolated ==
    snapshot.taken => ReadSnapshot(snapshot.data, metrics) = snapshot.returned

\* GetMetrics leaves the Metrics value as it was
SnapshotReadOnly ==
    [][snapshot' # snapshot => metrics' = metrics]_vars

\* the parts of a snapshot that GetMetrics copies stay as returned
SnapshotCopiedPartsStable ==
    snapshot.taken =>
        /\ snapshot.data.endpoints = snapshot.returned.endpoints
        /\ snapshot.data.total_requests = snapshot.returned.total_requests
        /\ snapshot.data.error_count = snapshot.returned.error_count

(* ------------------------------------------------------------------ *)
(* The users table (userRepo) and UserHandler                          *)
(* ------------------------------------------------------------------ *)
\* number of UserHandler calls in one behaviour of SpecUsers
MaxUserCalls == 2
\* last clock value of SpecUsers
MaxTimeUsers == 1
\* number of users registered before a behaviour starts
MaxSeeded == 2

\* a username of 51 characters
LongName == "aaaaaaaaaaaaaaaaaaaaaaaaaaaaaaaaaaaaaaaaaaaaaaaaaaa"

\* len(s) for the strings that occur as request fields
StrLen(s) ==
    CASE s = "" -> 0
      [] s = "al" -> 2
      [] s = "bob" -> 3
      [] s = "alice" -> 5
      [] s = LongName -> 51
      [] s = "short" -> 5
      [] s = "password1" -> 9
      [] s = "password2" -> 9
      [] s = "alice@x.io" -> 10
      [] s = "bob@x.io" -> 8
      [] s = "alice@x" -> 7

\* strings.Contains(s, "@") and strings.Contains(s, ".") for the same strings
ContainsAt(s) == s \in {"alice@x.io", "bob@x.io", "alice@x"}
ContainsDot(s) == s \in {"alice@x.io", "bob@x.io"}

isValidEmail(email) ==
    /\ StrLen(email) > 0
    /\ StrLen(email) <= 254
    /\ ContainsAt(email)
    /\ ContainsDot(email)

\* validateCreateUserRequest: the error message, "" for nil
validateCreateUserRequest(req) ==
    IF req.Username = "" \/ StrLen(req.Username) < 3 \/ StrLen(req.Username) > 50
    THEN "username must be between 3 and 50 characters"
    ELSE IF req.Email = "" \/ ~isValidEmail(req.Email)
    THEN "valid email is required"
    ELSE IF req.Password = "" \/ StrLen(req.Password) < 8
    THEN "password must be at least 8 characters"
    ELSE ""

\* the {id:[0-9]+} segment of the path and strconv.Atoi of it: digits beyond
\* the range of int do not convert
IDStrs == {"1", "2", "99999999999999999999"}
Atoi(idStr) ==
    CASE idStr = "1" -> [ok |-> TRUE, n |-> 1]
      [] idStr = "2" -> [ok |-> TRUE, n |-> 2]
      [] OTHER -> [ok |-> FALSE, n |-> 0]

\* models.User before it has a row
NoRow == [ID |-> 0, Username |-> "", Email |-> "", Password |-> <<>>,
          CreatedAt |-> 0, UpdatedAt |-> 0]

\* userRepo.GetUserByID and userRepo.GetUserByEmail on the rows of the table:
\* QueryRow(...).Scan fails when no row matches
SelectByID(rows, id) ==
    IF \E u \in rows : u.ID = id
    THEN [ok |-> TRUE, user |-> CHOOSE u \in rows : u.ID = id]
    ELSE [ok |-> FALSE, user |-> NoRow]

SelectByEmail(rows, email) ==
    IF \E u \in rows : u.Email = email
    THEN [ok |-> TRUE, user |-> CHOOSE u \in rows : u.Email = email]
    ELSE [ok |-> FALSE, user |-> NoRow]

\* username ... UNIQUE, email ... UNIQUE: another row holds the username or
\* the email
UniqueViolation(rows, user) ==
    \E u \in rows : u.ID # user.ID /\ (u.Username = user.Username \/ u.Email = user.Email)

\* userRepo.CreateUser: INSERT ... RETURNING id. The id comes from the
\* sequence of the SERIAL column, which advances also when the row is refused
InsertUser(d, user) ==
    LET row == [user EXCEPT !.ID = d.seq + 1] IN
    IF UniqueViolation(d.rows, row)
    THEN [ok |-> FALSE, db |-> [d EXCEPT !.seq = @ + 1], user |-> NoRow]
    ELSE [ok |-> TRUE, db |-> [rows |-> d.rows \cup {row}, seq |-> d.seq + 1], user |-> row]

\* an UPDATE that leaves the email column out
UpdateRowKeepEmail(d, user) ==
    [ok |-> TRUE,
     db |-> [d EXCEPT !.rows =
               { IF u.ID = user.ID
                 THEN [u EXCEPT !.Username = user.Username,
                                !.Password = user.Password, !.UpdatedAt = user.UpdatedAt]
                 ELSE u : u \in d.rows }]]

\* userRepo.UpdateUser: UPDATE ... WHERE id; a statement that matches no row
\* is not an error, and created_at is not among the columns set
UpdateRow(d, user) ==
    IF \E u \in d.rows : u.ID = user.ID /\ UniqueViolation(d.rows, user)
    THEN [ok |-> FALSE, db |-> d]
    ELSE [ok |-> TRUE,
          db |-> [d EXCEPT !.rows =
                    { IF u.ID = user.ID
                      THEN [u EXCEPT !.Username = user.Username, !.Email = user.Email,
                                     !.Password = user.Password, !.UpdatedAt = user.UpdatedAt]
                      ELSE u : u \in d.rows }]]

\* a DELETE without its WHERE clause
DeleteRowAll(d, id) ==
    [ok |-> TRUE, db |-> [d EXCEPT !.rows = {}]]

\* userRepo.DeleteUser: DELETE ... WHERE id; only the error of Exec is
\* returned, and a statement that matched no row has none
DeleteRow(d, id) ==
    [ok |-> TRUE, db |-> [d EXCEPT !.rows = {u \in d.rows : u.ID # id}]]

\* the decoded bodies of POST /users; a body that does not decode leaves the
\* CreateUserRequest empty
CreateBody(username, email, password) ==
    [decodes |-> TRUE, Username |-> username, Email |-> email, Password |-> password]

CreateBodies ==
    { [decodes |-> FALSE, Username |-> "", Email |-> "", Password |-> ""],
      CreateBody("alice", "alice@x.io", "password1"),
      CreateBody("bob", "bob@x.io", "password2"),
      CreateBody("bob", "alice@x.io", "password2"),
      CreateBody("alice", "bob@x.io", "password2"),
      CreateBody("al", "bob@x.io", "password2"),
      CreateBody(LongName, "bob@x.io", "password2"),
      CreateBody("bob", "alice@x", "password2"),
      CreateBody("bob", "bob@x.io", "short") }

\* the decoded bodies of PUT /users/{id}: a field that is absent decodes to ""
UpdateBodies ==
    { [decodes |-> FALSE, Username |-> "", Email |-> "", Password |-> ""],
      CreateBody("bob", "", ""),
      CreateBody("", "bob@x.io", ""),
      CreateBody("", "", "password2"),
      CreateBody("", "alice@x", "") }

\* UserResponse of a row, the body of sendErrorResponse, and no body at all
UserResponse(u) ==
    [ID |-> u.ID, Username |-> u.Username, Email |-> u.Email,
     CreatedAt |-> u.CreatedAt, UpdatedAt |-> u.UpdatedAt]
ErrorBody(statusCode, message) == [error |-> StatusText(statusCode), message |-> message]
NoBody == [empty |-> TRUE]

\* the models.User that CreateUser builds from a request at time t
NewUser(req, t) ==
    [ID |-> 0, Username |-> req.Username, Email |-> req.Email,
     Password |-> HashPassword(req.Password), CreatedAt |-> t, UpdatedAt |-> t]

\* UpdateUser: the fields of the request that are not "" replace those of the
\* row that was read; no field is validated
ApplyUpdate(existingUser, req, t) ==
    [existingUser EXCEPT !.Username = IF req.Username # "" THEN req.Username ELSE @,
                         !.Email = IF req.Email # "" THEN req.Email ELSE @,
                         !.Password = IF req.Password # "" THEN HashPassword(req.Password) ELSE @,
                         !.UpdatedAt = t]

\* the table after the first n of the registrations of alice and bob, at time 0
RECURSIVE SeedDB(_)
SeedDB(n) ==
    IF n = 0 THEN EmptyDB
    ELSE InsertUser(SeedDB(n - 1),
                    NewUser(IF n = 1 THEN CreateBody("alice", "alice@x.io", "password1")
                                     ELSE CreateBody("bob", "bob@x.io", "password2"), 0)).db

\* a call may start while fewer than MaxUserCalls were started; the tasks are
\* interchangeable, and a new call is taken by u1 when it is idle
CanStart(t) ==
    /\ ucall[t].pc = "idle"
    /\ t = "u1" \/ ucall["u1"].pc # "idle"
    /\ Len(ulog) + Cardinality({u \in UTasks : ucall[u].pc # "idle"}) < MaxUserCalls

\* the handler of task t returns after writing the response
Respond(t, op, id, req, statusCode, respBody) ==
    /\ ulog' = Append(ulog, [op |-> op, id |-> id, req |-> req,
                             status |-> statusCode, body |-> respBody])
    /\ ucall' = [ucall EXCEPT ![t] = IdleCall]

UsersFixed == <<now, rlVars, tokVars, pipeVars, metVars, login>>

\* CreateUser up to the lookup by email: decode, validate, GetUserByEmail
CreateUserCheck(t, req) ==
    /\ CanStart(t)
    /\ IF ~req.decodes
       THEN Respond(t, "CreateUser", 0, req, 400, ErrorBody(400, "Invalid request body"))
       ELSE IF validateCreateUserRequest(req) # ""
       THEN Respond(t, "CreateUser", 0, req, 400, ErrorBody(400, validateCreateUserRequest(req)))
       ELSE IF SelectByEmail(db.rows, req.Email).ok
       THEN Respond(t, "CreateUser", 0, req, 409,
                    ErrorBody(409, "User with this email already exists"))
       ELSE /\ ucall' = [ucall EXCEPT ![t] = [pc |-> "insert", req |-> req]]
            /\ ulog' = ulog
    /\ UNCHANGED db
    /\ UNCHANGED UsersFixed

\* CreateUser from the hashing on: the INSERT and the response
CreateUserInsert(t) ==
    /\ ucall[t].pc = "insert"
    /\ LET res == InsertUser(db, NewUser(ucall[t].req, now)) IN
        /\ db' = res.db
        /\ IF res.ok
           THEN Respond(t, "CreateUser", res.user.ID, ucall[t].req, 201, UserResponse(res.user))
           ELSE Respond(t, "CreateUser", 0, ucall[t].req, 500,
                        ErrorBody(500, "Failed to create user"))
    /\ UNCHANGED UsersFixed

\* GetUser
GetUser(t, idStr) ==
    /\ CanStart(t)
    /\ LET id == Atoi(idStr)
           res == SelectByID(db.rows, id.n) IN
        IF ~id.ok
        THEN Respond(t, "GetUser", 0, NoBody, 400, ErrorBody(400, "Invalid user ID"))
        ELSE IF ~res.ok
        THEN Respond(t, "GetUser", id.n, NoBody, 404, ErrorBody(404, "User not found"))
        ELSE Respond(t, "GetUser", id.n, NoBody, 200, UserResponse(res.user))
    /\ UNCHANGED db
    /\ UNCHANGED UsersFixed

\* UpdateUser up to the UPDATE: Atoi, decode, GetUserByID, the new field values
UpdateUserRead(t, idStr, req) ==
    /\ CanStart(t)
    /\ LET id == Atoi(idStr)
           res == SelectByID(db.rows, id.n) IN
        IF ~id.ok
        THEN Respond(t, "UpdateUser", 0, req, 400, ErrorBody(400, "Invalid user ID"))
        ELSE IF ~req.decodes
        THEN Respond(t, "UpdateUser", id.n, req, 400, ErrorBody(400, "Invalid request body"))
        ELSE IF ~res.ok
        THEN Respond(t, "UpdateUser", id.n, req, 404, ErrorBody(404, "User not found"))
        ELSE /\ ucall' = [ucall EXCEPT ![t] =
                            [pc |-> "update", req |-> req, read |-> res.user,
                             user |-> ApplyUpdate(res.user, req, now)]]
             /\ ulog' = ulog
    /\ UNCHANGED db
    /\ UNCHANGED UsersFixed

\* UpdateUser: the UPDATE and the response
UpdateUserWrite(t) ==
    /\ ucall[t].pc = "update"
    /\ LET res == UpdateRow(db, ucall[t].user) IN
        /\ db' = res.db
        /\ IF res.ok
           THEN Respond(t, "UpdateUser", ucall[t].user.ID, ucall[t].req, 200,
                        UserResponse(ucall[t].user))
           ELSE Respond(t, "UpdateUser", ucall[t].user.ID, ucall[t].req, 500,
                        ErrorBody(500, "Failed to update user"))
    /\ UNCHANGED UsersFixed

\* DeleteUser
DeleteUser(t, idStr) ==
    /\ CanStart(t)
    /\ LET id == Atoi(idStr)
           res == DeleteRow(db, id.n) IN
        IF ~id.ok
        THEN /\ db' = db
             /\ Respond(t, "DeleteUser", 0, NoBody, 400, ErrorBody(400, "Invalid user ID"))
        ELSE /\ db' = res.db
             /\ IF ~res.ok
                THEN Respond(t, "DeleteUser", id.n, NoBody, 404, ErrorBody(404, "User not found"))
                ELSE Respond(t, "DeleteUser", id.n, NoBody, 204, NoBody)
    /\ UNCHANGED UsersFixed

TickUsers ==
    /\ now < MaxTimeUsers
    /\ now' = now + 1
    /\ UNCHANGED <<rlVars, tokVars, pipeVars, metVars, login, usrVars>>

\* the server with the table as it is after up to MaxSeeded registrations
InitUsers ==
    /\ now = 0
    /\ maxRequests = PipeLimit
    /\ requests = <<>>
    /\ rlMu = "free"
    /\ tickPending = FALSE
    /\ tpc = [t \in Tasks |-> "idle"]
    /\ tip = [t \in Tasks |-> "ipA"]
    /\ tnow = [t \in Tasks |-> 0]
    /\ tvalid = [t \in Tasks |-> <<>>]
    /\ allowLog = <<>>
    /\ sweeps = <<>>
    /\ secretKey = ServerKey
    /\ issued = {}
    /\ lastVal = NoVal
    /\ rq = [r \in Reqs |-> NewRequest]
    /\ crashed = FALSE
    /\ served = 0
    /\ metrics = NewMetrics
    /\ recorded = <<>>
    /\ snapshot = NoSnapshot
    /\ login = NoLogins
    /\ \E n \in 0..MaxSeeded : db = SeedDB(n)
    /\ ucall = [t \in UTasks |-> IdleCall]
    /\ ulog = <<>>

NextUsers ==
    \/ \E t \in UTasks : \E req \in CreateBodies : CreateUserCheck(t, req)
    \/ \E t \in UTasks : CreateUserInsert(t)
    \/ \E t \in UTasks : \E idStr \in IDStrs : GetUser(t, idStr)
    \/ \E t \in UTasks : \E idStr \in IDStrs : \E req \in UpdateBodies : UpdateUserRead(t, idStr, req)
    \/ \E t \in UTasks : UpdateUserWrite(t)
    \/ \E t \in UTasks : \E idStr \in IDStrs : DeleteUser(t, idStr)
    \/ TickUsers

SpecUsers == InitUsers /\ [][NextUsers]_vars

\* the store never holds two rows with the same id, email or username
UniqueRows ==
    \A u, v \in db.rows :
        (u.ID = v.ID \/ u.Email = v.Email \/ u.Username = v.Username) => u = v

\* the ids and the emails in the table
IDsOf(rows) == {u.ID : u \in rows}
EmailsOf(rows) == {u.Email : u \in rows}

\* a request body in range: username of 3..50 characters, a valid email, a
\* password of at least 8 characters
InRange(req) ==
    /\ req.decodes
    /\ StrLen(req.Username) >= 3 /\ StrLen(req.Username) <= 50
    /\ isValidEmail(req.Email)
    /\ StrLen(req.Password) >= 8

\* this step completes a call of the handler op, and the completed call
Completes(op) ==
    /\ Len(ulog') = Len(ulog) + 1
    /\ ulog'[Len(ulog')].op = op
Completed == ulog'[Len(ulog')]

\* C23: a registration with an email that is already registered gets 409 and
\* creates no second user: of the registrations with one email, one gets 201
\* and every later one 409 (no deletion or update in between), also when
\* they run concurrently; the table never holds two users with one email.
C23_DuplicateEmailConflict ==
    /\ \A u, v \in db.rows : u.Email = v.Email => u = v
    /\ (\A k \in 1..Len(ulog) : ulog[k].op = "CreateUser") =>
          \A i, j \in 1..Len(ulog) :
              (i < j /\ ulog[i].status = 201 /\ InRange(ulog[j].req)
                     /\ ulog[j].req.Email = ulog[i].req.Email)
                  => ulog[j].status = 409

\* C24: CreateUser with a request out of range returns 400 and leaves the
\* table unchanged; with a request in range whose email is not in the table
\* it returns 201 and the created user, which is then in the table.
C24_CreateUserValidation ==
    [][Completes("CreateUser") =>
          /\ ~InRange(Completed.req) => (Completed.status = 400 /\ db' = db)
          /\ (InRange(Completed.req) /\ Completed.req.Email \notin EmailsOf(db.rows)) =>
                /\ Completed.status = 201
                /\ Completed.body.Username = Completed.req.Username
                /\ Completed.body.Email = Completed.req.Email
                /\ \E u \in db'.rows \ db.rows : UserResponse(u) = Completed.body
      ]_vars

\* C25: GetUser, UpdateUser and DeleteUser for an id that is not in the table
\* return 404 and leave the table unchanged (an UpdateUser whose body does
\* not decode aside, which is answered before the lookup).
C25_AbsentIdNotFound ==
    [][\A op \in {"GetUser", "UpdateUser", "DeleteUser"} :
          (/\ Completes(op)
           /\ Completed.id # 0 /\ Completed.id \notin IDsOf(db.rows)
           /\ op = "UpdateUser" => Completed.req.decodes) =>
              (Completed.status = 404 /\ db' = db)
      ]_vars

\* C26: DeleteUser for an id in the table returns 204 and removes exactly the
\* row of that id, the other rows stay as they are, and a GetUser of the id
\* afterwards returns 404 (the id is not in the table, and no later row gets
\* an id that was given out before); GetUser for an id in the table returns
\* 200 with the user of that id and leaves the table unchanged.
C26_DeleteAndGet ==
    /\ [][/\ (Completes("DeleteUser") /\ Completed.id \in IDsOf(db.rows)) =>
               /\ Completed.status = 204
               /\ db'.rows = {u \in db.rows : u.ID # Completed.id}
               /\ db.rows \ db'.rows = {SelectByID(db.rows, Completed.id).user}
          /\ (Completes("GetUser") /\ Completed.id \in IDsOf(db.rows)) =>
               /\ Completed.status = 200
               /\ Completed.body = UserResponse(SelectByID(db.rows, Completed.id).user)
               /\ Completed.body.ID = Completed.id
               /\ db' = db
          /\ (Completes("GetUser") /\ Completed.id # 0 /\ Completed.id \notin IDsOf(db.rows)) =>
               /\ Completed.status = 404
               /\ db' = db
          /\ \A id \in IDsOf(db'.rows) \ IDsOf(db.rows) : id > db.seq
        ]_vars
    /\ [](\A u \in db.rows : u.ID <= db.seq)

\* one of two users was deleted with 204, a GetUser of its id then got 404,
\* and the other user is still in the table as it was registered
C26_Witness ==
    /\ Len(ulog) = 2
    /\ ulog[1].op = "DeleteUser" /\ ulog[1].status = 204 /\ ulog[1].id = 1
    /\ ulog[2].op = "GetUser" /\ ulog[2].status = 404 /\ ulog[2].id = 1
    /\ db.rows = SeedDB(2).rows \ SeedDB(1).rows
    /\ Cardinality(db.rows) = 1

\* a GetUser for a user in the table was answered with 200 and that user
GetUserFound ==
    \E i \in 1..Len(ulog) :
        /\ ulog[i].op = "GetUser" /\ ulog[i].status = 200
        /\ \E u \in db.rows : UserResponse(u) = ulog[i].body

\* the fields of an update that are supplied but out of range
UpdateOutOfRange(req) ==
    \/ req.Username # "" /\ (StrLen(req.Username) < 3 \/ StrLen(req.Username) > 50)
    \/ req.Email # "" /\ ~isValidEmail(req.Email)
    \/ req.Password # "" /\ StrLen(req.Password) < 8

\* C27: UpdateUser for an id in the table returns 200 and changes only the
\* fields supplied non-empty: the fields not supplied, the id, createdAt and
\* the other users stay as they are; a request with a supplied field out of
\* range returns 400 and changes nothing.
C27_UpdateOnlySupplied ==
    [][(Completes("UpdateUser") /\ Completed.req.decodes /\ Completed.id \in IDsOf(db.rows)) =>
          LET old == SelectByID(db.rows, Completed.id).user
              req == Completed.req IN
          IF UpdateOutOfRange(req)
          THEN Completed.status = 400 /\ db' = db
          ELSE /\ Completed.status = 200
               /\ \E new \in db'.rows :
                    /\ new.ID = old.ID /\ new.CreatedAt = old.CreatedAt
                    /\ new.Username = IF req.Username # "" THEN req.Username ELSE old.Username
                    /\ new.Email = IF req.Email # "" THEN req.Email ELSE old.Email
                    /\ new.Password = IF req.Password # ""
                                      THEN HashPassword(req.Password) ELSE old.Password
                    /\ db'.rows \ {new} = db.rows \ {old}
      ]_vars

(* ------------------------------------------------------------------ *)
(* Tokens next to the users table: SpecSess                            *)
(* ------------------------------------------------------------------ *)

\* an AuthMiddleware that accepts a token only while its user has a row
AuthenticateStored(key, tok, t, rows) ==
    IF tok.form = "jwt" /\ tok.claims.user_id \notin {u.ID : u \in rows}
    THEN [ok |-> FALSE, err |-> {"revoked"}, claims |-> NoClaims]
    ELSE ValidateToken(key, tok, t)

\* AuthMiddleware decides on a bearer token with ValidateToken alone: neither
\* the users table nor the tokens issued so far are consulted
Authenticate(key, tok, t, rows) == ValidateToken(key, tok, t)

\* a request with an issued token reaches AuthMiddleware
AuthenticateIssued(i) ==
    /\ ~lastVal.pending
    /\ lastVal' = [pending |-> TRUE, tok |-> i.token, at |-> now,
                   res |-> Authenticate(secretKey, i.token, now, db.rows)]
    /\ UNCHANGED <<now, secretKey, issued>>
    /\ UNCHANGED NotTok

\* RefreshToken behind AuthMiddleware: a new token from the claims of the
\* accepted one; the old token is not touched
RefreshToken ==
    /\ lastVal.pending
    /\ lastVal.res.ok
    /\ Cardinality(issued) <= MaxIssued
    /\ issued' = issued \cup {GenerateToken(secretKey, lastVal.res.claims.UserID,
                                            lastVal.res.claims.Username,
                                            lastVal.res.claims.Email, now)}
    /\ lastVal' = NoVal
    /\ UNCHANGED <<now, secretKey>>
    /\ UNCHANGED NotTok

InitSess ==
    /\ now = 0
    /\ secretKey = ServerKey
    /\ issued = {}
    /\ lastVal = NoVal
    /\ maxRequests = PipeLimit
    /\ requests = <<>>
    /\ rlMu = "free"
    /\ tickPending = FALSE
    /\ tpc = [t \in Tasks |-> "idle"]
    /\ tip = [t \in Tasks |-> "ipA"]
    /\ tnow = [t \in Tasks |-> 0]
    /\ tvalid = [t \in Tasks |-> <<>>]
    /\ allowLog = <<>>
    /\ sweeps = <<>>
    /\ rq = [r \in Reqs |-> NewRequest]
    /\ crashed = FALSE
    /\ served = 0
    /\ metrics = NewMetrics
    /\ recorded = <<>>
    /\ snapshot = NoSnapshot
    /\ login = NoLogins
    /\ db = SeedDB(MaxSeeded)
    /\ ucall = [t \in UTasks |-> IdleCall]
    /\ ulog = <<>>

NextSess ==
    \/ \E u \in Users : IssueToken(u)
    \/ \E i \in issued : AuthenticateIssued(i)
    \/ RefreshToken
    \/ ValidateReturn
    \/ TickTok
    \/ \E idStr \in IDStrs : DeleteUser("u1", idStr)

SpecSess == InitSess /\ [][NextSess]_vars

\* C28: tokens are stateless and never revoked: an issued token presented
\* before its expiresAt is accepted with its claims whatever happened to the
\* users table and whatever tokens were issued in between; after a refresh
\* the old and the new token are both accepted, each until its own expiry.
C28_TokensNeverRevoked ==
    lastVal.pending =>
        \A i \in issued :
            (i.token = lastVal.tok /\ lastVal.at < i.expiresAt) =>
                /\ lastVal.res.ok
                /\ lastVal.res.claims = ClaimsOf(i.token)

\* after a refresh gave a second token and after the user of both was deleted,
\* the old token is presented before its expiresAt and accepted
C28_Witness ==
    /\ lastVal.pending
    /\ lastVal.res.ok
    /\ \E i, j \in issued :
          /\ i.token # j.token
          /\ i.expiresAt < j.expiresAt
          /\ ClaimsOf(i.token).UserID = ClaimsOf(j.token).UserID
          /\ lastVal.tok = i.token
          /\ lastVal.at < i.expiresAt
          /\ ClaimsOf(i.token).UserID \notin IDsOf(db.rows)
    /\ \E k \in 1..Len(ulog) : ulog[k].op = "DeleteUser" /\ ulog[k].status = 204

(* ------------------------------------------------------------------ *)
(* The window of the rate limiter                                      *)
(* ------------------------------------------------------------------ *)

\* the number of calls i..j of a sequence of calls that returned true
Admitted(calls, i, j) == Cardinality({k \in i..j : calls[k].ok})

C30_RateWindowInvariant ==
    /\ [](\A ip \in DOMAIN requests :
            /\ Len(requests[ip]) > 0
            /\ \A i, j \in 1..Len(requests[ip]) :
                  i <= j => requests[ip][i] <= requests[ip][j])
    /\ [][(rlMu = "cleanup" /\ rlMu' = "free") =>
            \A ip \in DOMAIN requests' :
                \A i \in 1..Len(requests'[ip]) : now' - requests'[ip][i] < WindowTicks
         ]_vars

\* a sweep has removed an identity that was admitted before, and kept another
\* whose timestamps are in the window
C30_Witness ==
    /\ rlMu = "free"
    /\ \E e \in {allowLog[i] : i \in 1..Len(allowLog)} :
          e.ok /\ e.ip \notin DOMAIN requests
    /\ \E ip \in DOMAIN requests : Len(requests[ip]) > 0

(* ------------------------------------------------------------------ *)
(* RateLimiter.cleanup under fair scheduling                           *)
(* ------------------------------------------------------------------ *)

\* the last instant at which SpecRLLive starts a call of Allow, the number of
\* calls it makes (one per task), and the instant at which its clock stops
LastCallTime == WindowTicks + 1
MaxCallsLive == Cardinality(Tasks)
MaxTimeLive == LastCallTime + 2 * WindowTicks

\* a client calls Allow, while clients still call
AllowLockLive(t, ip) ==
    /\ now <= LastCallTime
    /\ Len(allowLog) + Cardinality({u \in Tasks : tpc[u] # "idle"}) < MaxCallsLive
    /\ AllowLock(t, ip)

\* the sweep, observed
CleanupSweepLive ==
    /\ CleanupSweep
    /\ sweeps' = Append(sweeps, Len(allowLog))

\* time passes; the ticker of cleanup fires every window
TickLive ==
    /\ now < MaxTimeLive
    /\ now' = now + 1
    /\ tickPending' = (tickPending \/ (now + 1) % WindowTicks = 0)
    /\ UNCHANGED <<maxRequests, requests, rlMu, tpc, tip, tnow, tvalid, allowLog, sweeps>>
    /\ UNCHANGED NotRL

NextRLLive ==
    \/ \E t \in Tasks, ip \in IPs : AllowLockLive(t, ip)
    \/ \E t \in Tasks : AllowFresh(t)
    \/ \E t \in Tasks : AllowPrune(t)
    \/ \E t \in Tasks : AllowCheck(t)
    \/ CleanupLock
    \/ CleanupSweepLive
    \/ TickLive

\* the clock advances, a call of Allow that holds the mutex runs to its
\* deferred Unlock, and the cleanup goroutine is scheduled: it takes a waiting
\* tick once the mutex is free and finishes its sweep
FairRL ==
    /\ WF_vars(TickLive)
    /\ WF_vars(CleanupLock)
    /\ WF_vars(CleanupSweepLive)
    /\ \A t \in Tasks : WF_vars(AllowFresh(t))
    /\ \A t \in Tasks : WF_vars(AllowPrune(t))
    /\ \A t \in Tasks : WF_vars(AllowCheck(t))

SpecRLLive == InitRL /\ [][NextRLLive]_vars /\ FairRL

\* the position in allowLog of the last admitted call of an identity (0: none)
LastAdmitted(ip) ==
    LET S == {i \in 1..Len(allowLog) : allowLog[i].ip = ip /\ allowLog[i].ok}
    IN  IF S = {} THEN 0 ELSE CHOOSE i \in S : \A j \in S : j <= i

\* the sweeps that ran after the last admitted call of an identity
SweepsSince(ip) ==
    Cardinality({k \in 1..Len(sweeps) : sweeps[k] >= LastAdmitted(ip)})

SweepStep == rlMu = "cleanup" /\ rlMu' = "free"

\* C31 as stated: an identity that is still in the map has seen at most one
\* sweep since its last admitted request (the second sweep removes it)
C31_RemovedBySecondSweep ==
    \A ip \in DOMAIN requests : SweepsSince(ip) < 2

\* C31: under fair scheduling of cleanup an identity in the map is eventually
\* removed from it (clients stop calling); a sweep removes an identity exactly
\* when none of its timestamps is younger than the window, whatever the number
\* of sweeps since its last admitted request, and removes no timestamp
\* younger than the window
C31_EntryEventuallyRemoved ==
    /\ \A ip \in IPs : (ip \in DOMAIN requests) ~> (ip \notin DOMAIN requests)
    /\ [][SweepStep =>
            \A ip \in DOMAIN requests :
                /\ (ip \in DOMAIN requests') <=> (Prune(requests[ip], now) # <<>>)
                /\ ip \in DOMAIN requests' => requests'[ip] = Prune(requests[ip], now)]_vars

\* an identity survived two sweeps after its last admitted request and was
\* removed by a later one
C31_Witness ==
    \E ip \in IPs :
        /\ LastAdmitted(ip) > 0
        /\ ip \notin DOMAIN requests
        /\ SweepsSince(ip) = 3

(* ------------------------------------------------------------------ *)
(* A store-mutating handler behind the timeout guard                   *)
(* ------------------------------------------------------------------ *)
\* the routes whose handlers change the users table
StoreRoutes == {<<"public", "POST">>, <<"protected", "PUT">>, <<"protected", "DELETE">>}

\* a request that has passed the stages up to the timeout guard (and the auth
\* guard on a protected route), whose goroutine is about to run the handler
AtHandler(rm) ==
    [NewRequest EXCEPT !.pc = "select", !.ipc = "handler",
        !.route = rm[1], !.method = rm[2], !.ip = "ipA", !.allowed = "yes",
        !.secHeaders = TRUE, !.rwStatus = 200, !.log = <<StartLine>>,
        !.trace = <<"recovery", "headers", "cors", "logging", "metrics",
                    "ratelimit", "validation", "timeout">>
                  \o (IF rm[1] = "protected" THEN <<"auth">> ELSE <<>>)]

\* the context the handler derives from r.Context() is done as soon as the
\* context of the timeout guard is
CtxDone(rec) == rec.fired \/ rec.canceled

\* the response of a handler whose repository calls all fail on a done context
CtxDoneStatus(method, idStr, req) ==
    IF method = "POST"
    THEN IF ~req.decodes \/ validateCreateUserRequest(req) # "" THEN 400 ELSE 500
    ELSE IF ~Atoi(idStr).ok THEN 400
    ELSE IF method = "PUT" /\ ~req.decodes THEN 400
    ELSE 404

\* the handler's sendJSONResponse / sendErrorResponse on the shared ResponseWriter
HandlerResponseChunk(statusCode) == Chunk("inner", statusCode, "", "handler response")

\* a step of the UserHandler of the request while its context is live
HandlerCall(r) ==
    /\ rq[r].ipc = "running"
    /\ ~CtxDone(rq[r])
    /\ ulog = <<>>
    /\ \/ /\ rq[r].method = "POST"
          /\ \E req \in CreateBodies : CreateUserCheck("u1", req)
       \/ /\ rq[r].method = "POST"
          /\ CreateUserInsert("u1")
       \/ /\ rq[r].method = "PUT"
          /\ \E idStr \in IDStrs : \E req \in UpdateBodies : UpdateUserRead("u1", idStr, req)
       \/ /\ rq[r].method = "PUT"
          /\ UpdateUserWrite("u1")
       \/ /\ rq[r].method = "DELETE"
          /\ \E idStr \in IDStrs : DeleteUser("u1", idStr)

\* the handler goes on after its context is done: its next repository call
\* fails and nothing is written to the table
HandlerCtxError(r, idStr, req) ==
    /\ rq[r].ipc = "running"
    /\ CtxDone(rq[r])
    /\ ulog = <<>>
    /\ LET op == IF rq[r].method = "POST" THEN "CreateUser"
                 ELSE IF rq[r].method = "PUT" THEN "UpdateUser" ELSE "DeleteUser"
           statusCode == IF ucall["u1"].pc = "idle"
                         THEN CtxDoneStatus(rq[r].method, idStr, req)
                         ELSE 500 IN
       Respond("u1", op, 0, NoBody, statusCode, ErrorBody(statusCode, "context error"))
    /\ UNCHANGED db
    /\ UNCHANGED UsersFixed

\* the handler writes the response it has built
HandlerDeliver(r) ==
    /\ rq[r].ipc = "running"
    /\ Len(ulog) = 1
    /\ rq' = [rq EXCEPT ![r] = [WriteResponse(rq[r], HandlerResponseChunk(ulog[1].status))
                                   EXCEPT !.ipc = "wrote"]]
    /\ UNCHANGED <<now, rlVars, tokVars, crashed, served, metVars, login, usrVars>>

InitStore ==
    /\ now = 0
    /\ maxRequests = PipeLimit
    /\ requests = [ip \in IPs |-> <<0>>]
    /\ rlMu = "free"
    /\ tickPending = FALSE
    /\ tpc = [t \in Tasks |-> "idle"]
    /\ tip = [t \in Tasks |-> "ipA"]
    /\ tnow = [t \in Tasks |-> 0]
    /\ tvalid = [t \in Tasks |-> <<>>]
    /\ allowLog = <<>>
    /\ sweeps = <<>>
    /\ secretKey = ServerKey
    /\ issued = {}
    /\ lastVal = NoVal
    /\ \E rm \in StoreRoutes :
          rq = [r \in Reqs |-> IF r = "r1" THEN AtHandler(rm) ELSE NewRequest]
    /\ crashed = FALSE
    /\ served = 0
    /\ metrics = [NewMetrics EXCEPT !.ActiveConnections = 1]
    /\ recorded = <<>>
    /\ snapshot = NoSnapshot
    /\ login = NoLogins
    /\ \E n \in 0..MaxSeeded : db = SeedDB(n)
    /\ ucall = [t \in UTasks |-> IdleCall]
    /\ ulog = <<>>

NextStore ==
    \/ HandlerStart("r1")
    \/ HandlerCall("r1")
    \/ \E idStr \in IDStrs : \E req \in CreateBodies \cup UpdateBodies :
          HandlerCtxError("r1", idStr, req)
    \/ HandlerDeliver("r1")
    \/ HandlerReturn("r1")
    \/ Deadline("r1")
    \/ ClientGone("r1")
    \/ GuardDone("r1")
    \/ GuardTimeout("r1")
    \/ GuardCanceled("r1")

SpecStore == InitStore /\ [][NextStore]_vars

\* the guard of the request has left its select
GuardReturned(r) == rq[r].pc \notin {"idle", "select"}

\* the table holds what the completed call of the handler says it applied
Applied(e) ==
    \/ e.status \notin {200, 201, 204}
    \/ /\ e.op = "CreateUser"
       /\ \E u \in db.rows : u.ID = e.id /\ u.Username = e.req.Username /\ u.Email = e.req.Email
    \/ /\ e.op = "UpdateUser"
       /\ \E u \in db.rows :
            /\ u.ID = e.id
            /\ e.req.Username # "" => u.Username = e.req.Username
            /\ e.req.Email # "" => u.Email = e.req.Email
            /\ e.req.Password # "" => u.Password = HashPassword(e.req.Password)
    \/ /\ e.op = "DeleteUser"
       /\ \A u \in db.rows : u.ID # e.id

\* C32: the handler behind the timeout guard is abandoned and not stopped:
\* the guard's answer (408 included) leaves the table as the handler made it,
\* no step takes back what a completed call of the handler applied, and after
\* the guard has returned the handler still runs to its end
C32_MutationSurvivesTimeout ==
    /\ [](\A i \in 1..Len(ulog) : Applied(ulog[i]))
    /\ [][(rq["r1"].pc = "select" /\ rq["r1"]'.pc # "select") => db' = db]_vars
    /\ [][(GuardReturned("r1") /\ ulog # <<>>) => db' = db]_vars

\* the client was answered 408 and the table holds the user the handler created
C32_Witness ==
    /\ GuardReturned("r1")
    /\ ClientStatus(rq["r1"]) = 408
    /\ Len(ulog) = 1
    /\ ulog[1].op = "CreateUser"
    /\ ulog[1].status = 201
    /\ \E u \in db.rows : u.ID = ulog[1].id /\ u.Email = ulog[1].req.Email
    /\ rq["r1"].ipc = "finished"

(* ------------------------------------------------------------------ *)
(* Store failures in the handlers                                      *)
(* ------------------------------------------------------------------ *)
\* C33: a call of Login that reaches the lookup while the store is unavailable
\* is answered 500, never 401 or 404
C33_StoreFailureIs500 ==
    \A i \in 1..Len(login) :
        (/\ ~login[i].dbUp
         /\ login[i].req.decodes
         /\ login[i].req.Email # ""
         /\ login[i].req.Password # "")
        => login[i].resp.status = 500

(* ------------------------------------------------------------------ *)
(* The select of the timeout guard                                     *)
(* ------------------------------------------------------------------ *)
\* C34: when the goroutine of the handler has returned (done is closed) before
\* the deadline passed, the guard writes nothing to the response
C34_GuardSilentAfterCompletion ==
    \A r \in Reqs : rq[r].doneLive => ~Wrote(rq[r], "guard")

(* ------------------------------------------------------------------ *)
(* Conservation of the counters of Metrics                             *)
(* ------------------------------------------------------------------ *)
\* the counters of a Metrics value agree with each other and with n calls of
\* RecordRequest
Conserved(m, n) ==
    /\ m.TotalConnections = n
    /\ SumOver(m.RequestCount, DOMAIN m.RequestCount) = n
    /\ SumOver(m.StatusCodeCount, DOMAIN m.StatusCodeCount) = n
    /\ m.ErrorCount = SumOver(m.StatusCodeCount, {c \in DOMAIN m.StatusCodeCount : c >= 400})

\* the request has come back through MetricsMiddleware from the inner stages
\* without a panic on the request goroutine
PastMetrics(rec) ==
    /\ InTrace(rec, "metrics")
    /\ rec.pc \in {"loggingPost", "finish", "done"}
    /\ ~Wrote(rec, "recovery")

\* C35 over sequences of RecordRequest calls alone
MetricsConserved == Conserved(metrics, Len(recorded))

\* C35: the total, the per-route counts and the status-code tallies all equal
\* the number of RecordRequest calls, the error count equals the tallies of the
\* codes from 400 up, and the request in flight has added exactly one record,
\* with a status that was written for it (or the wrapper's initial 200), once
\* it has come back through the metrics stage without a panic, and none before
C35_MetricsConservation ==
    /\ Conserved(metrics, Len(recorded))
    /\ \A r \in Serial :
        /\ PastMetrics(rq[r]) =>
              /\ Len(recorded) = served + 1
              /\ \/ recorded[Len(recorded)].statusCode = 200
                 \/ \E i \in 1..Len(rq[r].body) :
                        rq[r].body[i].code = recorded[Len(recorded)].statusCode
              /\ recorded[Len(recorded)].key = EndpointKey(rq[r].method, rq[r].route)
        /\ rq[r].pc \notin {"loggingPost", "finish", "done"} => Len(recorded) = served
        /\ Len(recorded) \in {served, served + 1}

\* a request answered 408 by the timeout guard has been recorded once, as an error
C35_Witness ==
    \E r \in Serial :
        /\ rq[r].pc = "done"
        /\ rq[r].rwStatus = 408
        /\ Len(recorded) = served + 1
        /\ recorded[Len(recorded)].statusCode = 408
        /\ metrics.ErrorCount = 1

(* ------------------------------------------------------------------ *)
(* A refused call of Allow                                             *)
(* ------------------------------------------------------------------ *)
\* the admitted calls among the first k - 1 of an identity that are younger
\* than the window at the time of its k-th call
YoungAdmitted(calls, k) ==
    Cardinality({i \in 1..(k - 1) : calls[i].ok /\ calls[k].t - calls[i].t < WindowTicks})

\* C36: a call of Allow that returns false leaves the map as it was, and a
\* call made while fewer than maxRequests admitted calls of its identity are
\* younger than the window returns true, whatever calls were refused before
C36_RejectLeavesMapUnchanged ==
    /\ [][(/\ Len(allowLog') = Len(allowLog) + 1
           /\ ~allowLog'[Len(allowLog')].ok) => requests' = requests]_vars
    /\ [](\A ip \in IPs :
            LET calls == CallsOf(ip) IN
            \A k \in 1..Len(calls) :
                YoungAdmitted(calls, k) < maxRequests => calls[k].ok)

\* an identity was refused and, once its admitted call had aged out, admitted
\* again by its next call
C36_Witness ==
    \E ip \in IPs :
        LET calls == CallsOf(ip) IN
        \E k \in 2..Len(calls) :
            /\ ~calls[k - 1].ok
            /\ calls[k].ok
            /\ calls[k].t - calls[k - 1].t < WindowTicks

(* ------------------------------------------------------------------ *)
(* Where the quota of the rate limiter is consumed                     *)
(* ------------------------------------------------------------------ *)
\* request r takes the step of RateLimitMiddleware
RateLimitStep(r) == rq[r].pc = "ratelimit" /\ rq[r]'.pc # "ratelimit" /\ rq[r]'.allowed # "?"

\* C37: the call of Allow in RateLimitMiddleware is the only step of a request
\* that changes the rate-limit map: an admitted call appends the request's
\* timestamp to the young timestamps of its identity, a refused one (429)
\* leaves the map as it was; the stages behind it (validation, timeout guard,
\* auth guard, handler) run only for admitted requests and never give the slot
\* back; a pre-flight OPTIONS request never reaches the rate limiter
C37_QuotaConsumedBeforeValidation ==
    /\ [][\A r \in Serial : RateLimitStep(r) =>
            IF rq[r]'.allowed = "yes"
            THEN /\ rq[r].ip \in DOMAIN requests'
                 /\ Len(requests'[rq[r].ip]) = rq[r]'.prior + 1
                 /\ requests'[rq[r].ip][Len(requests'[rq[r].ip])] = now
            ELSE /\ requests' = requests
                 /\ rq[r]'.status = 429]_vars
    /\ [][requests' # requests =>
            \/ \E r \in Serial : RateLimitStep(r)
            \/ tickPending /\ ~tickPending']_vars
    /\ [](\A r \in Serial :
            /\ (\E s \in {"validation", "timeout", "auth", "handler"} : InTrace(rq[r], s))
                  => rq[r].allowed = "yes"
            /\ rq[r].method = "OPTIONS" => rq[r].allowed = "?" /\ ~InTrace(rq[r], "ratelimit")
            /\ rq[r].status = 429 => rq[r].allowed = "no")

\* a request of an identity known to the map was admitted and then refused by
\* the auth guard or answered 408; its timestamp is in the map
C37_Witness ==
    \E r \in Serial :
        /\ rq[r].allowed = "yes"
        /\ rq[r].prior = 0
        /\ rq[r].pc = "done"
        /\ rq[r].status \in {401, 408, 413, 415}
        /\ rq[r].ip \in DOMAIN requests
        /\ \E i \in 1..Len(requests[rq[r].ip]) : requests[rq[r].ip][i] >= rq[r].mstart
        /\ served = PipeLimit
        /\ rq[r].ip = "ipA"

(* ------------------------------------------------------------------ *)
(* The identity the rate limiter counts by                             *)
(* ------------------------------------------------------------------ *)
\* strings are sequences of characters here; <<>> is "" (Header.Get of an
\* absent header)
MaxCallsIP == 3

\* strings.Split(s, ",")[0]
RECURSIVE SplitFirst(_)
SplitFirst(s) ==
    IF s = <<>> \/ s[1] = "," THEN <<>> ELSE <<s[1]>> \o SplitFirst(Tail(s))

\* strings.TrimSpace
RECURSIVE TrimLeft(_)
TrimLeft(s) == IF s # <<>> /\ s[1] = " " THEN TrimLeft(Tail(s)) ELSE s
RECURSIVE TrimRight(_)
TrimRight(s) ==
    IF s # <<>> /\ s[Len(s)] = " " THEN TrimRight(SubSeq(s, 1, Len(s) - 1)) ELSE s
TrimSpace(s) == TrimRight(TrimLeft(s))

\* "if colon := strings.LastIndex(ip, ":"); colon != -1 { ip = ip[:colon] }"
StripPort(addr) ==
    LET colons == {i \in 1..Len(addr) : addr[i] = ":"} IN
    IF colons = {} THEN addr
    ELSE SubSeq(addr, 1, (CHOOSE i \in colons : \A j \in colons : j <= i) - 1)

\* an identity taken from the transport address alone
getClientIPTransport(xff, xri, remoteAddr) == StripPort(remoteAddr)

getClientIP(xff, xri, remoteAddr) ==
    IF xff # <<>> THEN TrimSpace(SplitFirst(xff))
    ELSE IF xri # <<>> THEN xri
    ELSE StripPort(remoteAddr)

\* the requests of one peer: X-Forwarded-For, X-Real-IP and RemoteAddr
PeerRequest(xff, xri, remoteAddr) == [xff |-> xff, xri |-> xri, remoteAddr |-> remoteAddr]

PeerRequests ==
    { PeerRequest(<<>>, <<>>, <<"p", ":", "1">>),
      PeerRequest(<<>>, <<>>, <<"p", ":", "2">>),
      PeerRequest(<<>>, <<"c">>, <<"p", ":", "1">>),
      PeerRequest(<<"a">>, <<>>, <<"p", ":", "1">>),
      PeerRequest(<<"a">>, <<"c">>, <<"p", ":", "1">>),
      PeerRequest(<<"a", ",", "b">>, <<>>, <<"p", ":", "1">>),
      PeerRequest(<<" ", "b", " ", ",", "a">>, <<"c">>, <<"p", ":", "1">>),
      PeerRequest(<<"b">>, <<>>, <<"p", ":", "1">>) }

\* RateLimitMiddleware for one request of the peer
ServeRequest(xff, xri, remoteAddr) ==
    /\ Len(allowLog) < MaxCallsIP
    /\ LET ip == getClientIP(xff, xri, remoteAddr) IN
        /\ requests' = AllowMap(requests, maxRequests, ip, now)
        /\ allowLog' = Append(allowLog,
                              [ip |-> ip, t |-> now,
                               ok |-> AllowResult(requests, maxRequests, ip, now),
                               xff |-> xff, xri |-> xri, remoteAddr |-> remoteAddr])
    /\ UNCHANGED <<now, maxRequests, rlMu, tickPending, tpc, tip, tnow, tvalid, sweeps>>
    /\ UNCHANGED NotRL

InitIP ==
    /\ InitUsers
    /\ db = EmptyDB

NextIP ==
    \/ \E r \in PeerRequests : ServeRequest(r.xff, r.xri, r.remoteAddr)
    \/ TickUsers

SpecIP == InitIP /\ [][NextIP]_vars

\* ip is the first comma-separated entry of the header value, without the
\* spaces around it
IsFirstEntry(ip, xff) ==
    \E n \in 0..Len(xff) : \E a \in 0..n :
        /\ n = Len(xff) \/ xff[n + 1] = ","
        /\ \A j \in 1..n : xff[j] # ","
        /\ a + Len(ip) <= n
        /\ \A j \in 1..a : xff[j] = " "
        /\ \A j \in (a + Len(ip) + 1)..n : xff[j] = " "
        /\ ip = SubSeq(xff, a + 1, a + Len(ip))
        /\ ip # <<>> => ip[1] # " " /\ ip[Len(ip)] # " "

\* ip is the transport address without its port
IsHostOf(ip, remoteAddr) ==
    \E n \in 1..Len(remoteAddr) :
        /\ remoteAddr[n] = ":"
        /\ \A j \in (n + 1)..Len(remoteAddr) : remoteAddr[j] # ":"
        /\ ip = SubSeq(remoteAddr, 1, n - 1)

\* the identities the peer has been counted under
IdentitiesSeen == {allowLog[i].ip : i \in 1..Len(allowLog)}

CallsUnder(id) == SelectSeq(allowLog, LAMBDA e : e.ip = id)

\* C38: the identity of a request is the first entry of X-Forwarded-For when
\* the header has a value, otherwise X-Real-IP when it has one, otherwise the
\* transport address without its port; each identity has its own window: a
\* call is admitted exactly when fewer than maxRequests admitted calls of the
\* same identity are younger than the window, whatever the same peer was
\* admitted or refused under other identities
C38_IdentityFromHeaders ==
    /\ \A i \in 1..Len(allowLog) :
        LET e == allowLog[i] IN
        /\ e.xff # <<>> => IsFirstEntry(e.ip, e.xff)
        /\ (e.xff = <<>> /\ e.xri # <<>>) => e.ip = e.xri
        /\ (e.xff = <<>> /\ e.xri = <<>>) => IsHostOf(e.ip, e.remoteAddr)
    /\ \A id \in IdentitiesSeen :
        LET calls == CallsUnder(id) IN
        \A k \in 1..Len(calls) : calls[k].ok <=> YoungAdmitted(calls, k) < maxRequests

\* one peer was admitted more than maxRequests times at one instant, by
\* requests that differ only in X-Forwarded-For
C38_Witness ==
    \E S \in SUBSET (1..Len(allowLog)) :
        /\ Cardinality(S) > maxRequests
        /\ \A i \in S : allowLog[i].ok /\ allowLog[i].xff # <<>>
        /\ \A i, j \in S :
            /\ allowLog[i].t = allowLog[j].t
            /\ allowLog[i].remoteAddr = allowLog[j].remoteAddr
            /\ allowLog[i].xri = allowLog[j].xri

(* ------------------------------------------------------------------ *)
(* The protected user routes and the user of the token                 *)
(* ------------------------------------------------------------------ *)
\* a handler that serves only the user named by the token
AuthorizedOwnerOnly(claims, id) == claims.UserID = id

\* GetUser, UpdateUser and DeleteUser take the id from the path and never read
\* the user_id that AuthMiddleware put into the request context
Authorized(claims, id) == TRUE

UserOps == {"GetUser", "UpdateUser", "DeleteUser"}

\* a request on /api/v1/users/{id} that AuthMiddleware has let through
ProtectedCall(op, idStr, req) ==
    /\ lastVal.pending
    /\ lastVal.res.ok
    /\ IF Authorized(lastVal.res.claims, Atoi(idStr).n)
       THEN \/ op = "GetUser" /\ GetUser("u1", idStr)
            \/ op = "UpdateUser" /\ UpdateUserRead("u1", idStr, req)
            \/ op = "DeleteUser" /\ DeleteUser("u1", idStr)
       ELSE /\ CanStart("u1")
            /\ Respond("u1", op, Atoi(idStr).n, NoBody, 403, NoBody)
            /\ UNCHANGED db
            /\ UNCHANGED UsersFixed

\* the second half of UpdateUser for such a request
ProtectedUpdateWrite ==
    /\ lastVal.pending
    /\ UpdateUserWrite("u1")

\* the request is over
ProtectedReturn ==
    /\ ucall["u1"].pc = "idle"
    /\ ValidateReturn

NextOwn ==
    \/ \E u \in Users : IssueToken(u)
    \/ \E i \in issued : AuthenticateIssued(i)
    \/ \E op \in UserOps : \E idStr \in IDStrs : \E req \in UpdateBodies :
          ProtectedCall(op, idStr, req)
    \/ ProtectedUpdateWrite
    \/ ProtectedReturn

SpecOwn == InitSess /\ [][NextOwn]_vars

\* the user of the token of the request being served
Caller == lastVal.res.claims.UserID

\* C39: on GET, PUT and DELETE /users/{id} the handler acts on the user of the
\* path whoever the token names: an existing user is returned with 200, is
\* deleted with 204, and is updated with 200 to what the request supplies (400
\* and 500 for the request's own faults), and no call is refused with 401 or 403
C39_NoOwnershipCheck ==
    [][\A op \in UserOps : (Completes(op) /\ lastVal.pending) =>
          /\ Completed.status \notin {401, 403}
          /\ (op = "GetUser" /\ Completed.id \in IDsOf(db.rows)) =>
                /\ Completed.status = 200
                /\ Completed.body = UserResponse(SelectByID(db.rows, Completed.id).user)
                /\ db' = db
          /\ (op = "DeleteUser" /\ Completed.id \in IDsOf(db.rows)) =>
                /\ Completed.status = 204
                /\ db'.rows = {u \in db.rows : u.ID # Completed.id}
          /\ (op = "UpdateUser" /\ Completed.req.decodes /\ Completed.id \in IDsOf(db.rows)) =>
                LET old == SelectByID(db.rows, Completed.id).user
                    new == ApplyUpdate(old, Completed.req, ucall["u1"].user.UpdatedAt) IN
                IF UniqueViolation(db.rows, new)
                THEN Completed.status = 500 /\ db' = db
                ELSE /\ Completed.status = 200
                     /\ db'.rows = (db.rows \ {old}) \cup {new}
      ]_vars

\* with the token of one user, another user was read, changed or deleted
CrossUser(op, statusCode) ==
    /\ lastVal.pending
    /\ lastVal.res.ok
    /\ \E i \in 1..Len(ulog) :
        /\ ulog[i].op = op
        /\ ulog[i].status = statusCode
        /\ ulog[i].id \in {1, 2}
        /\ ulog[i].id # Caller

C39_Witness ==
    /\ Len(ulog) = 2
    /\ CrossUser("UpdateUser", 200)
    /\ CrossUser("DeleteUser", 204)
    /\ ulog[1].id = ulog[2].id
    /\ ulog[2].id \notin IDsOf(db.rows)

(* ------------------------------------------------------------------ *)
(* UpdateUser as a read-modify-write                                   *)
(* ------------------------------------------------------------------ *)
\* C40: the UPDATE of UpdateUser writes the whole record the handler built
\* from the row it read earlier: when it succeeds, the stored row gets the
\* username, email and password of that copy, also where the row has been
\* changed by another request since the read
C40_UpdateWritesWholeRecord ==
    [][\A t \in UTasks :
          (/\ ucall[t].pc = "update"
           /\ ucall'[t].pc = "idle"
           /\ Completed.status = 200
           /\ ucall[t].user.ID \in IDsOf(db.rows)) =>
          LET new == SelectByID(db'.rows, ucall[t].user.ID).user
              read == ucall[t].read
              req == ucall[t].req IN
          /\ new.Username = IF req.Username # "" THEN req.Username ELSE read.Username
          /\ new.Email = IF req.Email # "" THEN req.Email ELSE read.Email
          /\ new.Password = IF req.Password # ""
                            THEN HashPassword(req.Password) ELSE read.Password
      ]_vars

\* two requests for one user, one changing the username and one the email,
\* were both answered 200 and the stored row has only one of the two changes
C40_Witness ==
    /\ Len(ulog) = 2
    /\ \A i \in 1..2 : ulog[i].op = "UpdateUser" /\ ulog[i].status = 200
    /\ ulog[1].id = ulog[2].id
    /\ \E i, j \in 1..2 :
        /\ ulog[i].req.Username # "" /\ ulog[i].req.Email = "" /\ ulog[i].req.Password = ""
        /\ ulog[j].req.Email # "" /\ ulog[j].req.Username = "" /\ ulog[j].req.Password = ""
        /\ \E u \in db.rows :
            /\ u.ID = ulog[1].id
            /\ (u.Username = ulog[i].req.Username) # (u.Email = ulog[j].req.Email)

====
